---- MODULE Spec2Model ----
(***************************************************************************)
(* A model of ts-jest's transformer (TsJestTransformer: the process-wide   *)
(* registry of config sets, getCacheKey, process/processAsync) and of its  *)
(* TsCompiler (getResolvedModules, getCompiledOutput and the overlay).     *)
(*                                                                         *)
(* Strings are sequences of character codes (ASCII), so that joining and   *)
(* hashing the cache-key elements is a real concatenation.  A Map is a     *)
(* function whose DOMAIN is the set of its keys.                           *)
(***************************************************************************)
EXTENDS Integers, Sequences, FiniteSets, TLC

\* ------------------------------------------------------------------ bounds
NumTransformers == 2
NumConfigObjs == 3
NumConfigValues == 2
MaxMtime == 2
MaxEdges == 3
MaxProjectVersion == 3
MaxImports == 2
MaxKeyLen == 2

\* ----------------------------------------------------------------- strings
\* `undefined` where a string is expected (-1 is no character code)
Undefined == <<-1>>

Range(s) == {s[i] : i \in 1..Len(s)}

InSeq(x, s) == \E i \in 1..Len(s) : s[i] = x

RECURSIVE Flatten(_)
Flatten(ss) == IF ss = <<>> THEN <<>> ELSE Head(ss) \o Flatten(Tail(ss))

\* Number.prototype.toString() of a non-negative integer
RECURSIVE NumToString(_)
NumToString(n) ==
  IF n < 10 THEN <<48 + n>> ELSE NumToString(n \div 10) \o <<48 + (n % 10)>>

\* Array.from(new Set(list)): first occurrences, in order
RECURSIVE Dedup(_)
Dedup(s) ==
  IF s = <<>> THEN <<>>
  ELSE LET init == Dedup(SubSeq(s, 1, Len(s) - 1))
           x == s[Len(s)]
       IN IF InSeq(x, init) THEN init ELSE Append(init, x)

\* Map.prototype.set
MapSet(m, k, v) == [q \in DOMAIN m \cup {k} |-> IF q = k THEN v ELSE m[q]]

EmptyMap == [q \in {} |-> <<>>]

\* String.prototype.endsWith
EndsWith(s, suffix) ==
  /\ Len(s) >= Len(suffix)
  /\ SubSeq(s, Len(s) - Len(suffix) + 1, Len(s)) = suffix

\* ------------------------------------------------------------- file system
\* "/<c>.ts" for a character c
PathOf(c) == <<47, c, 46, 116, 115>>

\* the letters a..d name the local modules ./a .. ./d; x names a package
LocalSpecifiers == {97, 98, 99, 100}
ExternalSpecifiers == {120}

Files == {PathOf(c) : c \in LocalSpecifiers}

\* ---------------------------------------------------------- configurations
\* A jest config is a live object (ref) holding a value; two objects may hold
\* the same value (jest hands getCacheKey a re-serialized copy).
ConfigValue(i) ==
  [ cacheDirectory |-> IF i % 2 = 1 THEN <<47, 107>> ELSE Undefined,
    isolatedModules |-> (i % 3 = 0),
    rootDir |-> <<47, 114>>,
    stringifyContentPathRegex |-> Undefined,
    tsconfig |-> Undefined,
    warnOnly |-> (i % 2 = 0) ]

ConfigObj(r) == [ref |-> r, val |-> ConfigValue(((r - 1) % NumConfigValues) + 1)]

ConfigObjs == {ConfigObj(r) : r \in 1..NumConfigObjs}

BoolStr(b) == IF b THEN <<116, 114, 117, 101>> ELSE <<102, 97, 108, 115, 101>>

\* stringify (fast-json-stable-stringify): keys in sorted order, a key whose
\* value is undefined is left out
Stringify(v) ==
  <<123>>
  \o (IF v.cacheDirectory = Undefined THEN <<>> ELSE <<99, 58>> \o v.cacheDirectory \o <<44>>)
  \o <<105, 58>> \o BoolStr(v.isolatedModules)
  \o <<44, 114, 58>> \o v.rootDir
  \o (IF v.stringifyContentPathRegex = Undefined THEN <<>>
      ELSE <<44, 115, 58>> \o v.stringifyContentPathRegex)
  \o (IF v.tsconfig = Undefined THEN <<>> ELSE <<44, 116, 58>> \o v.tsconfig)
  \o <<44, 119, 58>> \o BoolStr(v.warnOnly)
  \o <<125>>

\* new JsonableValue(value): the value and its serialized form
JsonableValue(o) == [value |-> o.ref, serialized |-> Stringify(o.val)]

\* the options a transformer instance was constructed with: <<>> is none
TransformerOptions(t) == IF t % 2 = 1 THEN <<>> ELSE <<[isolatedModules |-> TRUE]>>

\* { ...config, globals: { 'ts-jest': { ...tsJest, ...transformerOptions } } }
MigratedConfig(t, v) ==
  IF TransformerOptions(t) = <<>> THEN v
  ELSE [v EXCEPT !.isolatedModules = TransformerOptions(t)[1].isolatedModules]

\* an inline tsconfig of the configuration: { allowJs: true }
AllowJsTsconfig == <<97, 108, 108, 111, 119, 74, 115>>

\* new ConfigSet(config): what the transformer and the compiler read of it
CreateConfigSet(v) ==
  [ rootDir |-> v.rootDir,
    isolatedModules |-> v.isolatedModules,
    tsCacheDir |-> v.cacheDirectory,
    cacheSuffix |-> <<35>>,
    useESM |-> TRUE,
    module |-> "ESNext",
    stringifyContentPathRegex |-> v.stringifyContentPathRegex,
    allowJs |-> (v.tsconfig = AllowJsTsconfig),
    diagnosticsThrow |-> ~v.warnOnly ]

\* configSet.shouldStringifyContent(filePath): the configured pattern, a
\* suffix such as ".d.ts$", matches the path
ShouldStringifyContent(configSet, filePath) ==
  /\ configSet.stringifyContentPathRegex # Undefined
  /\ EndsWith(filePath, configSet.stringifyContentPathRegex)

\* ---------------------------------------------------------------- compiler
\* parsedTsConfig.fileNames: the files of the project
ProjectFileNames == {PathOf(97), PathOf(98)}

\* compilerOptions.module of a tsconfig that does not set it
ModuleUnset == "unset"

\* parsedTsConfig.options under the default tsconfig (esModuleInterop unset
\* or false is FALSE)
InitialCompilerOptions ==
  [module |-> "ESNext", allowJs |-> FALSE, sourceMap |-> TRUE, esModuleInterop |-> FALSE]

\* configSet.parsedTsConfig.options, copied into _initialCompilerOptions
ParsedOptions(configSet) ==
  [InitialCompilerOptions EXCEPT !.allowJs = configSet.allowJs,
                                 !.module = configSet.module]

\* the fields of a new TsCompiler before _createLanguageService runs: the
\* overlay (content and version stores) exists unless isolatedModules, the
\* memoized host functions and the module resolution cache start empty
NewCompilerFields(configSet) ==
  [ configSet |-> configSet,
    languageService |-> FALSE,
    initialCompilerOptions |-> ParsedOptions(configSet),
    compilerOptions |-> ParsedOptions(configSet),
    fileContentCache |-> EmptyMap,
    fileVersionCache |-> EmptyMap,
    projectVersion |-> 1,
    programVersion |-> 0,
    fileExistsMemo |-> EmptyMap,
    readFileMemo |-> EmptyMap,
    moduleResolutionCache |-> EmptyMap ]

\* memoize(ts.sys.fileExists): the first answer for a path is kept
FileExists(comp, dsk, path) ==
  IF path \in DOMAIN comp.fileExistsMemo
  THEN [comp |-> comp, exists |-> comp.fileExistsMemo[path]]
  ELSE [ comp |-> [comp EXCEPT !.fileExistsMemo =
                     MapSet(@, path, path \in DOMAIN dsk /\ dsk[path].exists)],
         exists |-> path \in DOMAIN dsk /\ dsk[path].exists ]

\* ts.sys.readFile: undefined for a file that is not on disk
ReadFile(dsk, path) ==
  IF path \in DOMAIN dsk /\ dsk[path].exists THEN dsk[path].content ELSE Undefined

\* memoize(ts.sys.readFile): the first content read for a path is kept
CachedReadFile(comp, dsk, path) ==
  IF path \in DOMAIN comp.readFileMemo
  THEN [comp |-> comp, content |-> comp.readFileMemo[path]]
  ELSE [ comp |-> [comp EXCEPT !.readFileMemo = MapSet(@, path, ReadFile(dsk, path))],
         content |-> ReadFile(dsk, path) ]

\* What ts.resolveModuleName answers for a specifier not resolved before: a
\* package is an external library import, a local specifier is its file when
\* the host's existence probe finds it
Resolution(moduleNameToResolve, exists) ==
  IF moduleNameToResolve \in ExternalSpecifiers
  THEN [ resolvedFileName |-> <<47, 110>> \o PathOf(moduleNameToResolve),
         isExternalLibraryImport |-> TRUE ]
  ELSE IF exists
  THEN [resolvedFileName |-> PathOf(moduleNameToResolve), isExternalLibraryImport |-> FALSE]
  ELSE [resolvedFileName |-> Undefined, isExternalLibraryImport |-> FALSE]

ResolveProbed(probe, moduleNameToResolve) ==
  [ comp |-> [probe.comp EXCEPT !.moduleResolutionCache =
                MapSet(@, moduleNameToResolve, Resolution(moduleNameToResolve, probe.exists))],
    resolvedModule |-> Resolution(moduleNameToResolve, probe.exists) ]

\* _resolveModuleName: ts.resolveModuleName with the session's host and
\* module resolution cache; a specifier resolved (or not) once keeps its answer
ResolveModuleName(comp, dsk, moduleNameToResolve) ==
  IF moduleNameToResolve \in DOMAIN comp.moduleResolutionCache
  THEN [comp |-> comp, resolvedModule |-> comp.moduleResolutionCache[moduleNameToResolve]]
  ELSE ResolveProbed(FileExists(comp, dsk, PathOf(moduleNameToResolve)), moduleNameToResolve)

\* ts.preProcessFile(content).importedFiles: the import specifiers of a text,
\* in order, repeated as often as the text names them (undefined has none)
PreProcessFile(content) ==
  SelectSeq(content, LAMBDA c : c \in LocalSpecifiers \cup ExternalSpecifiers)

\* a resolved file name kept whether or not it is an external library import
ResolvedPathAnyLibrary(resolvedModule) ==
  IF resolvedModule.resolvedFileName # Undefined THEN resolvedModule.resolvedFileName
  ELSE <<>>

\* resolvedFileName && !isExternalLibraryImport ? resolvedFileName : ''
ResolvedPath(resolvedModule) ==
  IF resolvedModule.resolvedFileName # Undefined /\ ~resolvedModule.isExternalLibraryImport
  THEN resolvedModule.resolvedFileName
  ELSE <<>>

PrependPath(p, m) == [comp |-> m.comp, paths |-> <<p>> \o m.paths]

\* the .map of _getImportedModulePaths, specifier by specifier
RECURSIVE MapResolve(_, _, _)
RECURSIVE MapResolveRest(_, _, _)
MapResolveRest(r, dsk, rest) ==
  PrependPath(ResolvedPath(r.resolvedModule), MapResolve(r.comp, dsk, rest))

MapResolve(comp, dsk, specifiers) ==
  IF specifiers = <<>> THEN [comp |-> comp, paths |-> <<>>]
  ELSE MapResolveRest(ResolveModuleName(comp, dsk, Head(specifiers)), dsk, Tail(specifiers))

\* the .filter of _getImportedModulePaths
DropEmpty(m) == [comp |-> m.comp, paths |-> SelectSeq(m.paths, LAMBDA p : p # <<>>)]

\* _getImportedModulePaths(resolvedFileContent, containingFile)
GetImportedModulePaths(comp, dsk, resolvedFileContent) ==
  DropEmpty(MapResolve(comp, dsk, PreProcessFile(resolvedFileContent)))

RuntimeCached(cfs, filePath) == IF filePath \in DOMAIN cfs THEN cfs[filePath] ELSE Undefined

ReadIntoRuntimeCache(rd, cfs, filePath) ==
  [comp |-> rd.comp, cfs |-> MapSet(cfs, filePath, rd.content), content |-> rd.content]

\* _getFileContentFromCache: the runtime cache, else (also for an empty
\* content) the memoized readFile, whose answer is stored in the runtime cache
GetFileContentFromCache(comp, cfs, dsk, filePath) ==
  IF RuntimeCached(cfs, filePath) # Undefined /\ RuntimeCached(cfs, filePath) # <<>>
  THEN [comp |-> comp, cfs |-> cfs, content |-> RuntimeCached(cfs, filePath)]
  ELSE ReadIntoRuntimeCache(CachedReadFile(comp, dsk, filePath), cfs, filePath)

DedupPaths(d) == [comp |-> d.comp, list |-> Dedup(d.paths)]

\* getResolvedModules, line 141: the direct imports of the root, deduplicated
DirectImports(comp, dsk, fileContent) ==
  DedupPaths(GetImportedModulePaths(comp, dsk, fileContent))

\* Array.prototype.forEach visits the indices below the length the array had
\* when forEach was called
ForEachLength(lengthAtCall, lengthNow) == lengthAtCall

PushAll(list, imp, cfs) ==
  [comp |-> imp.comp, cfs |-> cfs, list |-> list \o imp.paths]

\* importedModulePaths.push(...paths.filter((p) => !importedModulePaths.includes(p)))
PushNew(list, imp, cfs) ==
  [ comp |-> imp.comp, cfs |-> cfs,
    list |-> list \o SelectSeq(imp.paths, LAMBDA m : ~InSeq(m, list)) ]

ExpandContent(fc, dsk, list) ==
  PushNew(list, GetImportedModulePaths(fc.comp, dsk, fc.content), fc.cfs)

\* the forEach callback for the entry at index k: read its content, resolve
\* its imports, push those not already in the list
ExpandEntry(st, dsk, k) ==
  ExpandContent(GetFileContentFromCache(st.comp, st.cfs, dsk, st.list[k]), dsk, st.list)

ExpandContentUnfiltered(fc, dsk, list) ==
  PushAll(list, GetImportedModulePaths(fc.comp, dsk, fc.content), fc.cfs)

ExpandEntryUnfiltered(st, dsk, k) ==
  ExpandContentUnfiltered(GetFileContentFromCache(st.comp, st.cfs, dsk, st.list[k]),
                          dsk, st.list)

\* after the callback: the compiler and runtime cache it leaves, the list it
\* pushed to, and the next index
Advance(st, e) ==
  [st EXCEPT !.comp = e.comp, !.cfs = e.cfs, !.list = e.list, !.k = @ + 1]

\* a loop over the live list that pushes every import, present or not
WorklistStepUnfiltered(st, dsk) ==
  IF st.k > Len(st.list) THEN [st EXCEPT !.pc = "done"]
  ELSE Advance(st, ExpandEntryUnfiltered(st, dsk, st.k))

\* one step of importedModulePaths.forEach(...): the callback on the next
\* index, or the end of the loop
ForEachStep(st, dsk) ==
  IF st.k > ForEachLength(st.lengthAtCall, Len(st.list)) THEN [st EXCEPT !.pc = "done"]
  ELSE Advance(st, ExpandEntry(st, dsk, st.k))

RECURSIVE ForEachRun(_, _)
ForEachRun(st, dsk) ==
  IF st.pc = "done" THEN st ELSE ForEachRun(ForEachStep(st, dsk), dsk)

\* the call of forEach on the deduplicated direct imports
ForEachStart(d, cfs) ==
  [ pc |-> "forEach", comp |-> d.comp, cfs |-> cfs, list |-> d.list,
    k |-> 1, lengthAtCall |-> Len(d.list) ]

\* getResolvedModules(fileContent, fileName, runtimeCacheFS)
GetResolvedModules(comp, cfs, dsk, fileContent) ==
  ForEachRun(ForEachStart(DirectImports(comp, dsk, fileContent), cfs), dsk)

\* ----------------------------------------------------------------- overlay
\* _isFileInCache
IsFileInCache(comp, fileName) ==
  /\ fileName \in DOMAIN comp.fileContentCache
  /\ fileName \in DOMAIN comp.fileVersionCache
  /\ comp.fileVersionCache[fileName] # 0

OverlayText(comp, fileName) ==
  IF fileName \in DOMAIN comp.fileContentCache THEN comp.fileContentCache[fileName] ELSE Undefined

\* an overlay entry whose version is decremented when the content differs
UpdateEntryCountingDown(comp, contents, fileName) ==
  IF ~IsFileInCache(comp, fileName)
  THEN [comp EXCEPT !.fileVersionCache = MapSet(@, fileName, 1)]
  ELSE IF comp.fileContentCache[fileName] # contents
  THEN [comp EXCEPT
          !.fileVersionCache = MapSet(@, fileName, comp.fileVersionCache[fileName] - 1),
          !.fileContentCache = MapSet(@, fileName, contents)]
  ELSE comp

\* an overlay entry whose version is incremented on every update of a
\* tracked file
UpdateEntryAlways(comp, contents, fileName) ==
  IF ~IsFileInCache(comp, fileName)
  THEN [comp EXCEPT !.fileVersionCache = MapSet(@, fileName, 1)]
  ELSE [comp EXCEPT
          !.fileVersionCache = MapSet(@, fileName, comp.fileVersionCache[fileName] + 1),
          !.fileContentCache = MapSet(@, fileName, contents)]

\* _updateMemoryCache, the overlay entry: version 1 on a miss; on a hit the
\* version is incremented and the content stored when the content differs
UpdateEntry(comp, contents, fileName) ==
  IF ~IsFileInCache(comp, fileName)
  THEN [comp EXCEPT !.fileVersionCache = MapSet(@, fileName, 1)]
  ELSE IF comp.fileContentCache[fileName] # contents
  THEN [comp EXCEPT
          !.fileVersionCache = MapSet(@, fileName, comp.fileVersionCache[fileName] + 1),
          !.fileContentCache = MapSet(@, fileName, contents)]
  ELSE comp

\* shouldIncrementProjectVersion without regard to the module kind
ShouldIncrementProjectVersionAnyModuleKind(comp, contents, fileName, isModuleKindTheSame) ==
  \/ ~IsFileInCache(comp, fileName)
  \/ comp.fileContentCache[fileName] # contents
  \/ fileName \notin ProjectFileNames

\* _updateMemoryCache, shouldIncrementProjectVersion
ShouldIncrementProjectVersion(comp, contents, fileName, isModuleKindTheSame) ==
  \/ ~IsFileInCache(comp, fileName)
  \/ comp.fileContentCache[fileName] # contents
  \/ fileName \notin ProjectFileNames
  \/ ~isModuleKindTheSame

\* an overlay update that leaves the project version alone when only the
\* content of a tracked project file changed
UpdateMemoryCacheContentUncounted(comp, contents, fileName, isModuleKindTheSame) ==
  [UpdateEntry(comp, contents, fileName) EXCEPT
     !.projectVersion =
        IF \/ ~IsFileInCache(comp, fileName)
           \/ fileName \notin ProjectFileNames
           \/ ~isModuleKindTheSame
        THEN @ + 1 ELSE @]

\* _updateMemoryCache(contents, fileName, isModuleKindTheSame)
UpdateMemoryCache(comp, contents, fileName, isModuleKindTheSame) ==
  [UpdateEntry(comp, contents, fileName) EXCEPT
     !.projectVersion =
        IF ShouldIncrementProjectVersion(comp, contents, fileName, isModuleKindTheSame)
        THEN @ + 1 ELSE @]

\* "undefined", the string String(undefined) gives
UndefinedString == <<117, 110, 100, 101, 102, 105, 110, 101, 100>>

\* a version lookup that always answers with a string
GetScriptVersionAsString(comp, fileName) ==
  IF fileName \in DOMAIN comp.fileVersionCache
  THEN NumToString(comp.fileVersionCache[fileName])
  ELSE UndefinedString

\* serviceHost.getScriptVersion: undefined for a path that is not in the
\* version store, else String(version)
GetScriptVersion(comp, fileName) ==
  IF fileName \in DOMAIN comp.fileVersionCache
  THEN NumToString(comp.fileVersionCache[fileName])
  ELSE Undefined

SnapshotStore(comp, fileName, fileContent) ==
  IF fileContent # Undefined
  THEN [comp EXCEPT !.fileContentCache = MapSet(@, fileName, fileContent),
                    !.fileVersionCache = MapSet(@, fileName, 1)]
  ELSE comp

SnapshotFromRead(rd, fileName) == SnapshotStore(rd.comp, fileName, rd.content)

\* serviceHost.getScriptSnapshot: on a miss the content comes from the
\* overlay, else the runtime cache, else the memoized readFile, and is stored
\* in the overlay at version 1
GetScriptSnapshot(comp, cfs, dsk, fileName) ==
  IF IsFileInCache(comp, fileName) THEN comp
  ELSE IF OverlayText(comp, fileName) # Undefined
  THEN SnapshotStore(comp, fileName, OverlayText(comp, fileName))
  ELSE IF RuntimeCached(cfs, fileName) # Undefined
  THEN SnapshotStore(comp, fileName, RuntimeCached(cfs, fileName))
  ELSE SnapshotFromRead(CachedReadFile(comp, dsk, fileName), fileName)

RECURSIVE SetToSeq(_)
SetToSeq(S) == IF S = {} THEN <<>> ELSE <<CHOOSE y \in S : TRUE>> \o SetToSeq(S \ {CHOOSE y \in S : TRUE})

\* The language service builds its program from the host: it asks a snapshot
\* of every script file and of every file these import (resolved through
\* the host's resolveModuleNames).
RECURSIVE LoadProgramFiles(_, _, _, _, _)
RECURSIVE LoadSnapshot(_, _, _, _, _)
RECURSIVE LoadImports(_, _, _, _, _)
LoadImports(imp, cfs, dsk, todo, loaded) ==
  LoadProgramFiles(imp.comp, cfs, dsk, Tail(todo) \o imp.paths, loaded \cup {Head(todo)})

LoadSnapshot(c1, cfs, dsk, todo, loaded) ==
  LoadImports(GetImportedModulePaths(c1, dsk, OverlayText(c1, Head(todo))), cfs, dsk, todo, loaded)

LoadProgramFiles(comp, cfs, dsk, todo, loaded) ==
  IF todo = <<>> THEN comp
  ELSE IF Head(todo) \in loaded THEN LoadProgramFiles(comp, cfs, dsk, Tail(todo), loaded)
  ELSE LoadSnapshot(GetScriptSnapshot(comp, cfs, dsk, Head(todo)), cfs, dsk, todo, loaded)

\* languageService.getProgram(): nothing is read while the host's project
\* version is the one the program was built at
SynchronizeHostData(comp, cfs, dsk) ==
  IF comp.programVersion = comp.projectVersion THEN comp
  ELSE [LoadProgramFiles(comp, cfs, dsk, SetToSeq(DOMAIN comp.fileVersionCache), {})
          EXCEPT !.programVersion = comp.projectVersion]

\* _createLanguageService: the project's ts/tsx files are tracked at version
\* 0, then the service is created and its first program built
CreateLanguageService(comp, cfs, dsk) ==
  SynchronizeHostData([comp EXCEPT !.languageService = TRUE,
                                   !.fileVersionCache = [f \in ProjectFileNames |-> 0]],
                      cfs, dsk)

\* a compiler that creates its language service whatever the configuration
CreateCompilerWithService(configSet, cfs, dsk) ==
  CreateLanguageService(NewCompilerFields(configSet), cfs, dsk)

\* new TsCompiler(configSet, cacheFS)
CreateCompiler(configSet, cfs, dsk) ==
  IF configSet.isolatedModules THEN NewCompilerFields(configSet)
  ELSE CreateLanguageService(NewCompilerFields(configSet), cfs, dsk)

\* -------------------------------------------------------- getCompiledOutput
\* JS_JSX_REGEX, TS_TSX_REGEX, DECLARATION_TYPE_EXT
IsJsJsx(fileName) == EndsWith(fileName, <<46, 106, 115>>) \/ EndsWith(fileName, <<46, 106, 115, 120>>)

IsTsTsx(fileName) == EndsWith(fileName, <<46, 116, 115>>) \/ EndsWith(fileName, <<46, 116, 115, 120>>)

DECLARATION_TYPE_EXT == <<46, 100, 46, 116, 115>>

\* isModernNodeModuleKind
IsModernNodeModuleKind(module) == module \in {"Node16", "NodeNext"}

\* fixupCompilerOptionsForModuleKind(compilerOptions, isEsm)
FixupCompilerOptionsForModuleKind(compilerOptions, isEsm) ==
  IF ~isEsm THEN [compilerOptions EXCEPT !.module = "CommonJS"]
  ELSE IF compilerOptions.module = ModuleUnset
  THEN [compilerOptions EXCEPT !.module = "ESNext"]
  ELSE IF IsModernNodeModuleKind(compilerOptions.module)
  THEN [compilerOptions EXCEPT !.module = "ESNext", !.esModuleInterop = TRUE]
  ELSE compilerOptions

\* What the TypeScript service reports for a text: a type error for a text
\* holding '!', a syntax error for one holding '?', no emit for one holding '~'
SemanticDiagnostics(text) == IF InSeq(33, text) THEN <<2322>> ELSE <<>>

SyntacticDiagnostics(text) == IF InSeq(63, text) THEN <<1005>> ELSE <<>>

\* languageService.getEmitOutput(fileName): the source map, then the script
EmitOutput(comp, fileName) ==
  [ emitSkipped |-> InSeq(126, OverlayText(comp, fileName)),
    outputFiles |-> IF \/ EndsWith(fileName, DECLARATION_TYPE_EXT)
                       \/ InSeq(126, OverlayText(comp, fileName))
                    THEN <<>>
                    ELSE << <<77>> \o OverlayText(comp, fileName),
                            <<74>> \o OverlayText(comp, fileName) >> ]

\* getDiagnostics(fileName); configSet.shouldReportDiagnostics holds for
\* every file under the default configuration
GetDiagnostics(comp, fileName) ==
  SemanticDiagnostics(OverlayText(comp, fileName))
  \o SyntacticDiagnostics(OverlayText(comp, fileName))

\* updateOutput(outputText, fileName, sourceMap): the script with its map
UpdateOutput(outputText, sourceMap) == outputText \o <<35>> \o sourceMap

\* configSet.raiseDiagnostics throws unless the configuration only warns
RaiseThrows(comp, diagnostics) == diagnostics # <<>> /\ comp.configSet.diagnosticsThrow

ReChecked(c2, cfs, fileToReTypeCheck, rechecked) ==
  [ comp |-> c2, cfs |-> cfs,
    threw |-> RaiseThrows(c2, GetDiagnostics(c2, fileToReTypeCheck)),
    rechecked |-> rechecked \cup {fileToReTypeCheck} ]

ReCheckContent(fc, dsk, fileToReTypeCheck, rechecked) ==
  ReChecked(SynchronizeHostData(UpdateMemoryCache(fc.comp, fc.content, fileToReTypeCheck, TRUE),
                                fc.cfs, dsk),
            fc.cfs, fileToReTypeCheck, rechecked)

\* the body of the watch-mode loop for one entry of the dependency graph
ReCheckOne(st, dsk, fileToReTypeCheck) ==
  ReCheckContent(GetFileContentFromCache(st.comp, st.cfs, dsk, fileToReTypeCheck),
                 dsk, fileToReTypeCheck, st.rechecked)

\* the watch-mode loop of getCompiledOutput: every file of the dependency
\* graph whose reachable set holds fileName gets its overlay entry updated
\* from the runtime cache and is diagnosed again
RECURSIVE ReTypeCheck(_, _, _, _, _)
ReTypeCheck(st, dsk, graph, fileName, todo) ==
  IF todo = <<>> \/ st.threw THEN st
  ELSE IF ~InSeq(fileName, graph[Head(todo)].resolvedModuleNames)
  THEN ReTypeCheck(st, dsk, graph, fileName, Tail(todo))
  ELSE ReTypeCheck(ReCheckOne(st, dsk, Head(todo)), dsk, graph, fileName, Tail(todo))

\* what getCompiledOutput leaves and answers; `at` names the return or throw
\* statement that ended it
Result(comp, cfs, threw, code, diagnostics, rechecked, at) ==
  [ comp |-> comp, cfs |-> cfs, threw |-> threw, code |-> code,
    diagnostics |-> diagnostics, rechecked |-> rechecked, at |-> at ]

\* getCompiledOutput returning the original content whenever emission was
\* skipped, whatever the extension
RespondSkippedReturnsOriginal(st, output, diagnostics, fileContent, fileName) ==
  IF st.threw THEN Result(st.comp, st.cfs, TRUE, <<>>, <<>>, st.rechecked, "raiseDiagnostics")
  ELSE IF output.emitSkipped
  THEN Result(st.comp, st.cfs, FALSE, fileContent, <<>>, st.rechecked,
              "CannotProcessFileReturnOriginal")
  ELSE IF output.outputFiles = <<>>
  THEN Result(st.comp, st.cfs, TRUE, <<>>, <<>>, st.rechecked, "UnableToRequireDefinitionFile")
  ELSE Result(st.comp, st.cfs, FALSE,
              IF st.comp.compilerOptions.sourceMap
              THEN UpdateOutput(output.outputFiles[2], output.outputFiles[1])
              ELSE output.outputFiles[1],
              diagnostics, st.rechecked, "emitted")

\* getCompiledOutput without its check of an empty list of output files
RespondWithoutOutputFiles(st, output, diagnostics, fileContent, fileName) ==
  IF st.threw THEN Result(st.comp, st.cfs, TRUE, <<>>, <<>>, st.rechecked, "raiseDiagnostics")
  ELSE IF output.emitSkipped
  THEN IF IsTsTsx(fileName)
       THEN Result(st.comp, st.cfs, TRUE, <<>>, <<>>, st.rechecked, "CannotProcessFile")
       ELSE Result(st.comp, st.cfs, FALSE, fileContent, <<>>, st.rechecked,
                   "CannotProcessFileReturnOriginal")
  ELSE Result(st.comp, st.cfs, FALSE,
              IF output.outputFiles = <<>> THEN <<>>
              ELSE IF st.comp.compilerOptions.sourceMap
              THEN UpdateOutput(output.outputFiles[2], output.outputFiles[1])
              ELSE output.outputFiles[1],
              diagnostics, st.rechecked, "emitted")

\* what getCompiledOutput does after the diagnostics: emitSkipped, no output
\* files, else the script with its source map
Respond(st, output, diagnostics, fileContent, fileName) ==
  IF st.threw THEN Result(st.comp, st.cfs, TRUE, <<>>, <<>>, st.rechecked, "raiseDiagnostics")
  ELSE IF output.emitSkipped
  THEN IF IsTsTsx(fileName)
       THEN Result(st.comp, st.cfs, TRUE, <<>>, <<>>, st.rechecked, "CannotProcessFile")
       ELSE Result(st.comp, st.cfs, FALSE, fileContent, <<>>, st.rechecked,
                   "CannotProcessFileReturnOriginal")
  ELSE IF output.outputFiles = <<>>
  THEN Result(st.comp, st.cfs, TRUE, <<>>, <<>>, st.rechecked, "UnableToRequireDefinitionFile")
  ELSE Result(st.comp, st.cfs, FALSE,
              IF st.comp.compilerOptions.sourceMap
              THEN UpdateOutput(output.outputFiles[2], output.outputFiles[1])
              ELSE output.outputFiles[1],
              diagnostics, st.rechecked, "emitted")

\* if (!isEsmMode && diagnostics.length): raise, then in watch mode the loop
Diagnosed(c2, cfs, dsk, graph, fileName, isEsmMode, watchMode) ==
  IF isEsmMode \/ GetDiagnostics(c2, fileName) = <<>>
  THEN [comp |-> c2, cfs |-> cfs, threw |-> FALSE, rechecked |-> {}]
  ELSE IF RaiseThrows(c2, GetDiagnostics(c2, fileName))
  THEN [comp |-> c2, cfs |-> cfs, threw |-> TRUE, rechecked |-> {}]
  ELSE IF watchMode
  THEN ReTypeCheck([comp |-> c2, cfs |-> cfs, threw |-> FALSE, rechecked |-> {}],
                   dsk, graph, fileName, SetToSeq(DOMAIN graph))
  ELSE [comp |-> c2, cfs |-> cfs, threw |-> FALSE, rechecked |-> {}]

Emitted(c2, cfs, dsk, graph, fileContent, fileName, isEsmMode, watchMode) ==
  Respond(Diagnosed(c2, cfs, dsk, graph, fileName, isEsmMode, watchMode),
          EmitOutput(c2, fileName), GetDiagnostics(c2, fileName), fileContent, fileName)

\* the language-service branch without its check of allowJs
CompileWithServiceAnyScript(comp, cfs, dsk, graph, fileContent, fileName, isEsmMode, watchMode) ==
  Emitted(SynchronizeHostData(
            UpdateMemoryCache(comp, fileContent, fileName,
                              comp.compilerOptions.module = comp.initialCompilerOptions.module),
            cfs, dsk),
          cfs, dsk, graph, fileContent, fileName, isEsmMode, watchMode)

\* the language-service branch: the overlay is updated, then the service
\* brings its program up to date to emit
CompileWithService(comp, cfs, dsk, graph, fileContent, fileName, isEsmMode, watchMode) ==
  IF IsJsJsx(fileName) /\ ~comp.compilerOptions.allowJs
  THEN Result(comp, cfs, FALSE, fileContent, <<>>, {}, "GotJsFileButAllowJsFalse")
  ELSE Emitted(SynchronizeHostData(
                 UpdateMemoryCache(comp, fileContent, fileName,
                                   comp.compilerOptions.module = comp.initialCompilerOptions.module),
                 cfs, dsk),
               cfs, dsk, graph, fileContent, fileName, isEsmMode, watchMode)

\* the isolated-modules branch: ts.transpileModule of the text alone
Transpile(comp, cfs, fileContent) ==
  IF RaiseThrows(comp, SyntacticDiagnostics(fileContent))
  THEN Result(comp, cfs, TRUE, <<>>, <<>>, {}, "raiseDiagnostics")
  ELSE Result(comp, cfs, FALSE,
              UpdateOutput(<<74>> \o fileContent, <<77>> \o fileContent), <<>>, {},
              "transpiled")

Compile(comp, cfs, dsk, graph, fileContent, fileName, isEsmMode, watchMode) ==
  IF comp.languageService
  THEN CompileWithService(comp, cfs, dsk, graph, fileContent, fileName, isEsmMode, watchMode)
  ELSE Transpile(comp, cfs, fileContent)

\* a getCompiledOutput that adjusts the options the previous request left
GetCompiledOutputFromCurrentOptions(comp, cfs, dsk, graph, fileContent, fileName, supportsStaticESM, watchMode) ==
  Compile([comp EXCEPT !.compilerOptions =
             FixupCompilerOptionsForModuleKind(comp.compilerOptions,
                                               comp.configSet.useESM /\ supportsStaticESM)],
          cfs, dsk, graph, fileContent, fileName,
          comp.configSet.useESM /\ supportsStaticESM, watchMode)

\* getCompiledOutput(fileContent, fileName, {depGraphs, supportsStaticESM, watchMode})
GetCompiledOutput(comp, cfs, dsk, graph, fileContent, fileName, supportsStaticESM, watchMode) ==
  Compile([comp EXCEPT !.compilerOptions =
             FixupCompilerOptionsForModuleKind(comp.initialCompilerOptions,
                                               comp.configSet.useESM /\ supportsStaticESM)],
          cfs, dsk, graph, fileContent, fileName,
          comp.configSet.useESM /\ supportsStaticESM, watchMode)

\* ------------------------------------------------------------- transformer
\* The program state the handlers work on, as one record:
\*   reg    TsJestTransformer._cachedConfigSets (process-wide)
\*   trs    the fields of each transformer instance
\*   comps  the compilers created so far (a compiler is its index)
\*   graphs the Map objects holding dependency graphs (a Map is its index)
\*   cfs    jest's cacheFS, the runtime cache every request hands over
\*   watch  process.argv.includes('--watch')

EmptySeparator == <<>>

CACHE_KEY_EL_SEPARATOR == <<0>>

\* the fields of a new TsJestTransformer: its own new Map, no compiler yet
NewTransformer(t) ==
  [compiler |-> 0, transformCfgStr |-> Undefined, depGraphs |-> t, watchMode |-> FALSE]

\* Array.prototype.find over the registry: the first matching index, 0 for none
FirstIndex(S) == IF S = {} THEN 0 ELSE CHOOSE i \in S : \A j \in S : i <= j

\* find((cs) => cs.jestConfig.value === config)
FindByValue(reg, o) ==
  FirstIndex({i \in 1..Len(reg) : reg[i].jestConfig.value = o.ref})

FindBySerializedNever(reg, serializedJestCfg) == 0

\* find((cs) => cs.jestConfig.serialized === serializedJestCfg)
FindBySerialized(reg, serializedJestCfg) ==
  FirstIndex({i \in 1..Len(reg) : reg[i].jestConfig.serialized = serializedJestCfg})

\* the instance takes the record's fingerprint, compiler, graphs and watch flag
Adopt(ccs) ==
  [ compiler |-> ccs.compiler, transformCfgStr |-> ccs.transformerCfgStr,
    depGraphs |-> ccs.depGraphs, watchMode |-> ccs.watchMode ]

BackPatchOmitted(ccs, o) == ccs

\* serializedCcs.jestConfig.value = config (the setter serializes the value)
BackPatch(ccs, o) == [ccs EXCEPT !.jestConfig = JsonableValue(o)]

\* `${new JsonableValue(jest).serialized}${configSet.cacheSuffix}` with
\* jest.cacheDirectory = undefined
TransformCfgStr(migratedConfig, configSet) ==
  Stringify([migratedConfig EXCEPT !.cacheDirectory = Undefined]) \o configSet.cacheSuffix

CreateCompilerReused(W, dsk, t, configSet) ==
  IF W.trs[t].compiler # 0 THEN [comps |-> W.comps, id |-> W.trs[t].compiler]
  ELSE [ comps |-> Append(W.comps, CreateCompiler(configSet, W.cfs, dsk)),
         id |-> Len(W.comps) + 1 ]

\* _createCompiler: this._compiler = new TsJestCompiler(configSet, cacheFS)
CreateCompilerFor(W, dsk, t, configSet) ==
  [ comps |-> Append(W.comps, CreateCompiler(configSet, W.cfs, dsk)),
    id |-> Len(W.comps) + 1 ]

RecordKeyMigrated(t, o) == [value |-> o.ref, serialized |-> Stringify(MigratedConfig(t, o.val))]

\* the record's jestConfig: new JsonableValue(config)
RecordKey(t, o) == JsonableValue(o)

\* the registry hit by reference: the instance adopts the record
HitByValue(W, t, byValue) ==
  [ W |-> [W EXCEPT !.trs[t] = Adopt(W.reg[byValue])],
    configSet |-> W.reg[byValue].configSet, how |-> "ref", idx |-> byValue ]

\* the registry hit by serialized form: the record takes the live object,
\* the instance adopts the record
HitBySerialized(W, t, o, bySerialized) ==
  [ W |-> [W EXCEPT !.reg[bySerialized] = BackPatch(@, o),
                    !.trs[t] = Adopt(W.reg[bySerialized])],
    configSet |-> W.reg[bySerialized].configSet, how |-> "ser", idx |-> bySerialized ]

\* the fields the instance sets on a miss
MissInstance(W, t, migratedConfig, configSet, made) ==
  [ compiler |-> made.id,
    transformCfgStr |-> TransformCfgStr(migratedConfig, configSet),
    depGraphs |-> W.trs[t].depGraphs,
    watchMode |-> W.watch ]

\* a registry that keeps only the record of the latest miss
RegisterLatestOnly(W, t, o, configSet, made, inst) ==
  [ W |-> [W EXCEPT !.reg = << [ jestConfig |-> RecordKey(t, o),
                                  configSet |-> configSet,
                                  transformerCfgStr |-> inst.transformCfgStr,
                                  compiler |-> inst.compiler,
                                  depGraphs |-> inst.depGraphs,
                                  watchMode |-> inst.watchMode ] >>,
                    !.comps = made.comps,
                    !.trs[t] = inst],
    configSet |-> configSet, how |-> "miss", idx |-> 1 ]

\* _cachedConfigSets.push({jestConfig, configSet, transformerCfgStr, compiler,
\* depGraphs, watchMode})
Register(W, t, o, configSet, made, inst) ==
  [ W |-> [W EXCEPT !.reg = Append(@, [ jestConfig |-> RecordKey(t, o),
                                         configSet |-> configSet,
                                         transformerCfgStr |-> inst.transformCfgStr,
                                         compiler |-> inst.compiler,
                                         depGraphs |-> inst.depGraphs,
                                         watchMode |-> inst.watchMode ]),
                    !.comps = made.comps,
                    !.trs[t] = inst],
    configSet |-> configSet, how |-> "miss", idx |-> Len(W.reg) + 1 ]

Created(W, t, o, migratedConfig, configSet, made) ==
  Register(W, t, o, configSet, made, MissInstance(W, t, migratedConfig, configSet, made))

\* the registry miss: a new config set, fingerprint, compiler and record
Miss(W, dsk, t, o, migratedConfig, configSet) ==
  Created(W, t, o, migratedConfig, configSet, CreateCompilerFor(W, dsk, t, configSet))

\* _configsFor(transformOptions)
ConfigsFor(W, dsk, t, o) ==
  IF FindByValue(W.reg, o) # 0
  THEN HitByValue(W, t, FindByValue(W.reg, o))
  ELSE IF FindBySerialized(W.reg, Stringify(o.val)) # 0
  THEN HitBySerialized(W, t, o, FindBySerialized(W.reg, Stringify(o.val)))
  ELSE Miss(W, dsk, t, o, MigratedConfig(t, o.val), CreateConfigSet(MigratedConfig(t, o.val)))

\* existsSync(path) and statSync(path).mtimeMs.toString()
ExistsSync(dsk, path) == path \in DOMAIN dsk /\ dsk[path].exists

MtimeString(dsk, path) == NumToString(dsk[path].mtime)

\* `instrument:${instrument ? 'on' : 'off'}`
InstrumentElement(instrument) ==
  <<105, 110, 115, 116, 114, 117, 109, 101, 110, 116, 58>>
  \o (IF instrument THEN <<111, 110>> ELSE <<111, 102, 102>>)

\* `supportsStaticESM:${supportsStaticESM ? 'on' : 'off'}`
SupportsStaticESMElement(supportsStaticESM) ==
  <<115, 117, 112, 112, 111, 114, 116, 115, 83, 116, 97, 116, 105, 99, 69, 83, 77, 58>>
  \o (IF supportsStaticESM THEN <<111, 110>> ELSE <<111, 102, 102>>)

\* constructingCacheKeyElements as first built by getCacheKey
CacheKeyElements(transformCfgStr, rootDir, instrument, supportsStaticESM, fileContent, filePath) ==
  << transformCfgStr, CACHE_KEY_EL_SEPARATOR,
     rootDir, CACHE_KEY_EL_SEPARATOR,
     InstrumentElement(instrument), CACHE_KEY_EL_SEPARATOR,
     SupportsStaticESMElement(supportsStaticESM), CACHE_KEY_EL_SEPARATOR,
     fileContent, CACHE_KEY_EL_SEPARATOR,
     filePath >>

\* the elements pushed for the resolved modules: separator, name, separator,
\* modification time
RECURSIVE ModuleElements(_, _)
ModuleElements(resolvedModuleNames, dsk) ==
  IF resolvedModuleNames = <<>> THEN <<>>
  ELSE << CACHE_KEY_EL_SEPARATOR, Head(resolvedModuleNames),
          CACHE_KEY_EL_SEPARATOR, MtimeString(dsk, Head(resolvedModuleNames)) >>
       \o ModuleElements(Tail(resolvedModuleNames), dsk)

\* sha1(...data) feeds the elements one after the other to one hash: the
\* digest is a function of their concatenation (taken here as injective)
Sha1(elements) == Flatten(elements)

\* this._depGraphs.get(filePath)?.fileContent === fileContent
StoredEntryMatches(graph, filePath, fileContent) ==
  filePath \in DOMAIN graph /\ graph[filePath].fileContent = fileContent

\* the stored reachable set used as it was stored
StoredModuleNamesUnfiltered(graph, dsk, filePath) == graph[filePath].resolvedModuleNames

\* the stored reachable set as the fast path uses it
StoredModuleNames(graph, dsk, filePath) ==
  SelectSeq(graph[filePath].resolvedModuleNames, LAMBDA m : ExistsSync(dsk, m))

\* what a request answers: the program state it leaves, how the registry was
\* hit, whether it threw, and what it returned
Answer(W, r, threw, out, fast, resolved, names, diagnostics, rechecked, at) ==
  [ W |-> W, how |-> r.how, idx |-> r.idx, threw |-> threw, out |-> out,
    fast |-> fast, resolved |-> resolved, names |-> names,
    diagnostics |-> diagnostics, rechecked |-> rechecked, at |-> at ]

\* statSync throws for a path that is not on disk
StatThrows(dsk, resolvedModuleNames) ==
  \E i \in 1..Len(resolvedModuleNames) : ~ExistsSync(dsk, resolvedModuleNames[i])

\* the key over the base elements and those of the resolved modules
KeyWithModules(W, r, dsk, elements, resolvedModuleNames, fast) ==
  Answer(W, r, StatThrows(dsk, resolvedModuleNames),
         IF StatThrows(dsk, resolvedModuleNames) THEN <<>>
         ELSE Sha1(elements \o ModuleElements(resolvedModuleNames, dsk)),
         fast, ~fast, resolvedModuleNames, <<>>, {}, "getCacheKey")

\* the fresh path: the compiler's answer is stored for the path with the content
KeyResolved(r, inst, dsk, elements, res, fileContent, filePath) ==
  KeyWithModules([r.W EXCEPT !.comps[inst.compiler] = res.comp,
                             !.cfs = res.cfs,
                             !.graphs[inst.depGraphs] =
                                MapSet(@, filePath, [ fileContent |-> fileContent,
                                                      resolvedModuleNames |-> res.list ])],
                 r, dsk, elements, res.list, FALSE)

\* the dependency block entered whether or not a cache directory is configured
KeyForWithoutCacheDirectory(r, inst, dsk, elements, fileContent, filePath) ==
  IF r.configSet.isolatedModules
  THEN Answer(r.W, r, FALSE, Sha1(elements), FALSE, FALSE, <<>>, <<>>, {}, "getCacheKey")
  ELSE IF StoredEntryMatches(r.W.graphs[inst.depGraphs], filePath, fileContent)
  THEN KeyWithModules(r.W, r, dsk, elements,
                      StoredModuleNames(r.W.graphs[inst.depGraphs], dsk, filePath), TRUE)
  ELSE KeyResolved(r, inst, dsk, elements,
                   GetResolvedModules(r.W.comps[inst.compiler], r.W.cfs, dsk, fileContent),
                   fileContent, filePath)

KeyFor(r, inst, dsk, elements, fileContent, filePath) ==
  IF r.configSet.isolatedModules \/ r.configSet.tsCacheDir = Undefined
  THEN Answer(r.W, r, FALSE, Sha1(elements), FALSE, FALSE, <<>>, <<>>, {}, "getCacheKey")
  ELSE IF StoredEntryMatches(r.W.graphs[inst.depGraphs], filePath, fileContent)
  THEN KeyWithModules(r.W, r, dsk, elements,
                      StoredModuleNames(r.W.graphs[inst.depGraphs], dsk, filePath), TRUE)
  ELSE KeyResolved(r, inst, dsk, elements,
                   GetResolvedModules(r.W.comps[inst.compiler], r.W.cfs, dsk, fileContent),
                   fileContent, filePath)

KeyOf(r, inst, dsk, fileContent, filePath, instrument, supportsStaticESM) ==
  KeyFor(r, inst, dsk,
         CacheKeyElements(inst.transformCfgStr, r.configSet.rootDir, instrument,
                          supportsStaticESM, fileContent, filePath),
         fileContent, filePath)

KeyWith(r, dsk, t, fileContent, filePath, instrument, supportsStaticESM) ==
  KeyOf(r, r.W.trs[t], dsk, fileContent, filePath, instrument, supportsStaticESM)

\* getCacheKey(fileContent, filePath, transformOptions)
GetCacheKey(W, dsk, t, o, fileContent, filePath, instrument, supportsStaticESM) ==
  KeyWith(ConfigsFor(W, dsk, t, o), dsk, t, fileContent, filePath, instrument, supportsStaticESM)

\* isNodeModule(filePath): a path below the packages directory "/n"
IsNodeModule(filePath) == Len(filePath) >= 3 /\ SubSeq(filePath, 1, 3) = <<47, 110, 47>>

\* a result of processWithTs that did not go through the compiler
Plain(W, code, at) ==
  [ W |-> W, threw |-> FALSE, code |-> code, diagnostics |-> <<>>,
    rechecked |-> {}, at |-> at ]

\* the compiler's result, with the compiler and the runtime cache it leaves
Compiled(W, inst, c) ==
  [ W |-> [W EXCEPT !.comps[inst.compiler] = c.comp, !.cfs = c.cfs],
    threw |-> c.threw, code |-> c.code, diagnostics |-> c.diagnostics,
    rechecked |-> c.rechecked, at |-> c.at ]

\* `module.exports=${stringify(sourceText)}`
ModuleExports(sourceText) ==
  <<109, 111, 100, 117, 108, 101, 46, 101, 120, 112, 111, 114, 116, 115, 61, 34>>
  \o sourceText \o <<34>>

CompileFor(W, inst, dsk, sourceText, sourcePath, supportsStaticESM) ==
  Compiled(W, inst,
           GetCompiledOutput(W.comps[inst.compiler], W.cfs, dsk, W.graphs[inst.depGraphs],
                             sourceText, sourcePath, supportsStaticESM, inst.watchMode))

\* processWithTs without its branch for declaration files
ProcessWithConfigsNoDefinitionBranch(r, t, dsk, sourceText, sourcePath, supportsStaticESM) ==
  IF ShouldStringifyContent(r.configSet, sourcePath)
  THEN Plain(r.W, ModuleExports(sourceText), "stringified")
  ELSE IF IsJsJsx(sourcePath) \/ IsTsTsx(sourcePath)
  THEN CompileFor(r.W, r.W.trs[t], dsk, sourceText, sourcePath, supportsStaticESM)
  ELSE Plain(r.W, sourceText, "GotUnknownFileType")

ProcessWithConfigs(r, t, dsk, sourceText, sourcePath, supportsStaticESM) ==
  IF ShouldStringifyContent(r.configSet, sourcePath)
  THEN Plain(r.W, ModuleExports(sourceText), "stringified")
  ELSE IF EndsWith(sourcePath, DECLARATION_TYPE_EXT) THEN Plain(r.W, <<>>, "isDefinitionFile")
  ELSE IF IsJsJsx(sourcePath) /\ IsNodeModule(sourcePath)
  THEN Plain(r.W, UpdateOutput(<<74>> \o sourceText, <<77>> \o sourceText), "transpileModule")
  ELSE IF IsJsJsx(sourcePath) \/ IsTsTsx(sourcePath)
  THEN CompileFor(r.W, r.W.trs[t], dsk, sourceText, sourcePath, supportsStaticESM)
  ELSE Plain(r.W, sourceText, "GotUnknownFileType")

\* processWithTs(sourceText, sourcePath, transformOptions); no babel-jest
\* transformer is configured
ProcessWithTs(W, dsk, t, o, sourceText, sourcePath, supportsStaticESM) ==
  ProcessWithConfigs(ConfigsFor(W, dsk, t, o), t, dsk, sourceText, sourcePath, supportsStaticESM)

Processed(r, p) ==
  Answer(p.W, r, p.threw, IF p.threw THEN <<>> ELSE p.code, FALSE, FALSE, <<>>,
         p.diagnostics, p.rechecked, p.at)

ProcessAs(r, dsk, t, o, sourceText, sourcePath, supportsStaticESM) ==
  Processed(r, ProcessWithTs(r.W, dsk, t, o, sourceText, sourcePath, supportsStaticESM))

\* process(sourceText, sourcePath, transformOptions); TS_JEST_HOOKS is unset
Process(W, dsk, t, o, sourceText, sourcePath, supportsStaticESM) ==
  ProcessAs(ConfigsFor(W, dsk, t, o), dsk, t, o, sourceText, sourcePath, supportsStaticESM)

\* processAsync without its throw of the diagnostics list
ProcessedAsyncDiagnosticsIgnored(r, p) ==
  Answer(p.W, r, p.threw, IF p.threw THEN <<>> ELSE p.code, FALSE, FALSE, <<>>,
         p.diagnostics, p.rechecked, p.at)

ProcessedAsync(r, p) ==
  Answer(p.W, r, p.threw \/ p.diagnostics # <<>>,
         IF p.threw \/ p.diagnostics # <<>> THEN <<>> ELSE p.code, FALSE, FALSE, <<>>,
         p.diagnostics, p.rechecked, p.at)

ProcessAsyncAs(r, dsk, t, o, sourceText, sourcePath, supportsStaticESM) ==
  ProcessedAsync(r, ProcessWithTs(r.W, dsk, t, o, sourceText, sourcePath, supportsStaticESM))

\* processAsync: as process, but a non-empty diagnostics list is thrown
ProcessAsync(W, dsk, t, o, sourceText, sourcePath, supportsStaticESM) ==
  ProcessAsyncAs(ConfigsFor(W, dsk, t, o), dsk, t, o, sourceText, sourcePath, supportsStaticESM)

\* ------------------------------------------------------------------- state
VARIABLES
  cachedConfigSets,  \* TsJestTransformer._cachedConfigSets
  transformers,      \* instance -> its _compiler, _transformCfgStr, _depGraphs, _watchMode
  compilers,         \* the TsCompiler instances, in creation order
  depGraphs,         \* the dependency-graph Maps, by identity
  cacheFS,           \* jest's runtime cache of file contents
  disk,              \* path -> [exists, mtime, content]
  watchArg,          \* process.argv.includes('--watch')
  last,              \* the last request handled and what it returned
  resolutions,       \* serialized configuration -> the first resolution of it and its answer
  gr,                \* a getResolvedModules call in progress, step by step
  ke                 \* two cache-key element sequences under comparison

vars == << cachedConfigSets, transformers, compilers, depGraphs, cacheFS, disk,
           watchArg, last, resolutions, gr, ke >>

World ==
  [ reg |-> cachedConfigSets, trs |-> transformers, comps |-> compilers,
    graphs |-> depGraphs, cfs |-> cacheFS, watch |-> watchArg ]

File(exists, mtime, content) == [exists |-> exists, mtime |-> mtime, content |-> content]

\* a.ts imports b.ts; b.ts and c.ts import nothing; d.ts does not exist
InitialDisk ==
  [ p \in Files |->
      IF p = PathOf(97) THEN File(TRUE, 1, <<98>>)
      ELSE IF p = PathOf(100) THEN File(FALSE, 0, <<>>)
      ELSE File(TRUE, 1, <<>>) ]

NoRequest ==
  [ op |-> "none", t |-> 0, ref |-> 0, serialized |-> <<>>, how |-> "none", idx |-> 0,
    lengthBefore |-> 0, valueKnownBefore |-> FALSE, serializedKnownBefore |-> FALSE,
    content |-> <<>>, path |-> <<>>, instrument |-> FALSE, supportsStaticESM |-> FALSE,
    threw |-> FALSE, out |-> <<>>, fast |-> FALSE, resolved |-> FALSE, names |-> <<>>,
    diagnostics |-> <<>>, rechecked |-> {}, at |-> "none", disk |-> InitialDisk ]

NoClosure == [pc |-> "off"]

NoElements == [pc |-> "off"]

InitProgram ==
  /\ cachedConfigSets = <<>>
  /\ transformers = [t \in 1..NumTransformers |-> NewTransformer(t)]
  /\ compilers = <<>>
  /\ depGraphs = [m \in 1..NumTransformers |-> EmptyMap]
  /\ cacheFS = EmptyMap
  /\ last = NoRequest
  /\ resolutions = EmptyMap

\* no counter of a compiler exceeds the bound of the model
WithinBounds(W) ==
  \A i \in 1..Len(W.comps) : W.comps[i].projectVersion <= MaxProjectVersion

\* a request handled: the program state it leaves and the record of it
Handled(op, t, o, content, path, instrument, supportsStaticESM, res) ==
  /\ WithinBounds(res.W)
  /\ cachedConfigSets' = res.W.reg
  /\ transformers' = res.W.trs
  /\ compilers' = res.W.comps
  /\ depGraphs' = res.W.graphs
  /\ cacheFS' = res.W.cfs
  /\ resolutions' =
        IF Stringify(o.val) \in DOMAIN resolutions THEN resolutions
        ELSE MapSet(resolutions, Stringify(o.val),
                    [ ref |-> o.ref, op |-> op, how |-> res.how, idx |-> res.idx,
                      compiler |-> res.W.trs[t].compiler ])
  /\ last' = [ op |-> op, t |-> t, ref |-> o.ref, serialized |-> Stringify(o.val),
               how |-> res.how, idx |-> res.idx,
               lengthBefore |-> Len(cachedConfigSets),
               valueKnownBefore |-> FindByValue(cachedConfigSets, o) # 0,
               serializedKnownBefore |->
                 \E i \in 1..Len(cachedConfigSets) :
                    cachedConfigSets[i].jestConfig.serialized = Stringify(o.val),
               content |-> content, path |-> path, instrument |-> instrument,
               supportsStaticESM |-> supportsStaticESM,
               threw |-> res.threw, out |-> res.out, fast |-> res.fast,
               resolved |-> res.resolved, names |-> res.names,
               diagnostics |-> res.diagnostics, rechecked |-> res.rechecked,
               at |-> res.at, disk |-> disk ]
  /\ UNCHANGED <<disk, watchArg, gr, ke>>

GetCacheKeyRequest(t, o, content, path, instrument, supportsStaticESM) ==
  Handled("getCacheKey", t, o, content, path, instrument, supportsStaticESM,
          GetCacheKey(World, disk, t, o, content, path, instrument, supportsStaticESM))

ProcessRequest(t, o, content, path, supportsStaticESM) ==
  Handled("process", t, o, content, path, FALSE, supportsStaticESM,
          Process(World, disk, t, o, content, path, supportsStaticESM))

ProcessAsyncRequest(t, o, content, path, supportsStaticESM) ==
  Handled("processAsync", t, o, content, path, FALSE, supportsStaticESM,
          ProcessAsync(World, disk, t, o, content, path, supportsStaticESM))

\* ------------------------------------------- the registry under any requests
\* Requests from every transformer instance under every configuration object,
\* for the file a.ts on an unchanging disk.
Init ==
  /\ InitProgram
  /\ disk = InitialDisk
  /\ watchArg \in BOOLEAN
  /\ gr = NoClosure
  /\ ke = NoElements

Next ==
  \E t \in 1..NumTransformers, o \in ConfigObjs :
    \/ GetCacheKeyRequest(t, o, <<98>>, PathOf(97), FALSE, TRUE)
    \/ ProcessRequest(t, o, <<98>>, PathOf(97), TRUE)
    \/ ProcessAsyncRequest(t, o, <<98>>, PathOf(97), TRUE)

Spec == Init /\ [][Next]_vars

\* ---------------------------------------------------------------- registry
\* C1: two resolutions of one configuration, the second by the same live
\* object or by another object with the same serialized form, yield the same
\* compiler, and the second appends no registry record.
C1_SameConfigurationSameCompiler ==
  (last.op # "none" /\ last.serializedKnownBefore) =>
     /\ last.how \in {"ref", "ser"}
     /\ Len(cachedConfigSets) = last.lengthBefore
     /\ last.serialized \in DOMAIN resolutions
     /\ transformers[last.t].compiler = resolutions[last.serialized].compiler
     /\ last.idx = resolutions[last.serialized].idx

\* a request presenting another object with the serialized form of an
\* earlier request has been answered
C1_ReusedBySerializedForm ==
  /\ last.how = "ser"
  /\ last.serialized \in DOMAIN resolutions
  /\ resolutions[last.serialized].how = "miss"
  /\ resolutions[last.serialized].ref # last.ref

\* C2: resolutions of two configurations whose serialized forms differ yield
\* two distinct compilers held in two distinct registry records.
C2_DistinctConfigurationsDistinctCompilers ==
  /\ \A s1, s2 \in DOMAIN resolutions :
        s1 # s2 =>
           /\ resolutions[s1].compiler # resolutions[s2].compiler
           /\ resolutions[s1].idx # resolutions[s2].idx
  /\ \A s \in DOMAIN resolutions :
        /\ cachedConfigSets[resolutions[s].idx].compiler = resolutions[s].compiler
        /\ (last.op # "none" /\ s # last.serialized) =>
              /\ transformers[last.t].compiler # resolutions[s].compiler
              /\ last.idx # resolutions[s].idx

\* two configurations that differ have been resolved, the second by the
\* transformer instance that resolved the first
C2_TwoConfigurationsResolved ==
  /\ Cardinality(DOMAIN resolutions) >= 2
  /\ last.how = "miss"
  /\ \E s \in DOMAIN resolutions :
        s # last.serialized /\ resolutions[s].compiler # transformers[last.t].compiler

\* C3: in every reachable state no two records of the registry have the same
\* serialized configuration.
C3_RegistrySerializedUnique ==
  \A i, j \in 1..Len(cachedConfigSets) :
     cachedConfigSets[i].jestConfig.serialized = cachedConfigSets[j].jestConfig.serialized
        => i = j

\* the registry holds several records, a re-serialized configuration has
\* just been answered from it and every transformer instance has used it
C3_SeveralRecordsAndReuse ==
  /\ Len(cachedConfigSets) >= 2
  /\ last.how = "ser"
  /\ \A t \in 1..NumTransformers : transformers[t].compiler # 0

\* C4: a getCacheKey request on an empty registry creates the record; a later
\* process request with another live object of the same serialized form
\* reuses the record's compiler and dependency graphs and stores its object
\* in the record; a request with an object the registry holds hits by
\* reference, and after any request the registry holds the request's object
\* in the record that answered it.
C4_LazyCreationAndBackPatch ==
  /\ (last.op = "getCacheKey" /\ last.lengthBefore = 0) =>
        /\ last.how = "miss"
        /\ Len(cachedConfigSets) = 1
        /\ last.idx = 1
  /\ ( /\ last.op \in {"process", "processAsync"}
       /\ ~last.valueKnownBefore
       /\ last.serializedKnownBefore ) =>
        /\ last.how = "ser"
        /\ Len(cachedConfigSets) = last.lengthBefore
        /\ cachedConfigSets[last.idx].jestConfig.serialized = last.serialized
        /\ cachedConfigSets[last.idx].jestConfig.value = last.ref
        /\ transformers[last.t].compiler = cachedConfigSets[last.idx].compiler
        /\ transformers[last.t].depGraphs = cachedConfigSets[last.idx].depGraphs
  /\ last.valueKnownBefore => last.how = "ref"
  /\ last.op # "none" => FindByValue(cachedConfigSets, ConfigObj(last.ref)) = last.idx

\* a process request was answered by the record a getCacheKey request of
\* another object created, and that record now holds the request's object
C4_BackPatchedAfterGetCacheKey ==
  /\ last.op = "process"
  /\ last.how = "ser"
  /\ cachedConfigSets[last.idx].jestConfig.value = last.ref
  /\ last.serialized \in DOMAIN resolutions
  /\ resolutions[last.serialized].op = "getCacheKey"
  /\ resolutions[last.serialized].how = "miss"
  /\ resolutions[last.serialized].idx = last.idx
  /\ resolutions[last.serialized].ref # last.ref

\* ------------------------------------------- cache keys on a changing disk
\* One transformer instance answers getCacheKey for a.ts with the content
\* a.ts has on disk, under a configuration with a cache directory or under
\* one without, while files are written, touched and deleted between the
\* requests.

\* what a file may be rewritten to: a.ts imports b with or without a trailing
\* blank; b.ts and c.ts import c or nothing
WrittenContents(p) ==
  IF p = PathOf(97) THEN {<<98>>, <<98, 32>>} ELSE {<<>>, <<99>>}

Mutable == {PathOf(98), PathOf(99)}

EnvironmentStep ==
  UNCHANGED << cachedConfigSets, transformers, compilers, depGraphs, cacheFS,
               watchArg, last, resolutions, gr, ke >>

\* utimes: a newer modification time for a file that exists
TouchFile(p) ==
  /\ disk[p].exists
  /\ disk[p].mtime < MaxMtime
  /\ disk' = [disk EXCEPT ![p].mtime = @ + 1]
  /\ EnvironmentStep

\* writeFile: another content and a newer modification time
WriteFile(p, content) ==
  /\ disk[p].mtime < MaxMtime
  /\ ~disk[p].exists \/ disk[p].content # content
  /\ disk' = [disk EXCEPT ![p] = File(TRUE, disk[p].mtime + 1, content)]
  /\ EnvironmentStep

\* unlink
DeleteFile(p) ==
  /\ disk[p].exists
  /\ disk' = [disk EXCEPT ![p] = File(FALSE, disk[p].mtime, <<>>)]
  /\ EnvironmentStep

InitKey ==
  /\ InitProgram
  /\ disk = InitialDisk
  /\ watchArg = FALSE
  /\ gr = NoClosure
  /\ ke = NoElements

NextKey ==
  \/ \E r \in 1..NumConfigValues :
        GetCacheKeyRequest(1, ConfigObj(r), disk[PathOf(97)].content, PathOf(97), FALSE, TRUE)
  \/ \E p \in Mutable : TouchFile(p)
  \/ \E p \in Mutable : DeleteFile(p)
  \/ \E p \in Mutable \cup {PathOf(97)} : \E content \in WrittenContents(p) : WriteFile(p, content)

SpecKey == InitKey /\ [][NextKey]_vars

\* C5: getCacheKey called twice with identical inputs on an unchanged
\* filesystem returns the same digest both times.
C5_SameInputsSameDigest ==
  [][ ( /\ last.op = "getCacheKey"
        /\ last'.op = "getCacheKey"
        /\ disk' = disk
        /\ last.disk = disk
        /\ last'.disk = disk
        /\ last'.t = last.t /\ last'.ref = last.ref
        /\ last'.content = last.content /\ last'.path = last.path
        /\ last'.instrument = last.instrument
        /\ last'.supportsStaticESM = last.supportsStaticESM )
      => (~last.threw /\ ~last'.threw /\ last'.out = last.out) ]_vars

\* the files the text imports that are on disk
ImportsOnDisk(dsk, content) ==
  {p \in Files : p[2] \in Range(content) /\ dsk[p].exists}

\* every file reachable on disk from a set of files through local imports
RECURSIVE ReachableFrom(_, _)
ReachableFrom(dsk, S) ==
  IF (S \cup UNION {ImportsOnDisk(dsk, dsk[f].content) : f \in S}) = S THEN S
  ELSE ReachableFrom(dsk, S \cup UNION {ImportsOnDisk(dsk, dsk[f].content) : f \in S})

TransitiveImports(dsk, content) == ReachableFrom(dsk, ImportsOnDisk(dsk, content))

\* C7: between two getCacheKey requests for the same file with the same
\* content, a change of the modification time of a file that is transitively
\* reachable at the second request makes the two digests differ.
C7_DependencyMtimeChangesDigest ==
  [][ ( /\ last.op = "getCacheKey" /\ ~last.threw
        /\ last'.op = "getCacheKey" /\ ~last'.threw
        /\ disk' = disk
        /\ last'.disk = disk
        /\ last'.t = last.t /\ last'.ref = last.ref
        /\ last'.content = last.content /\ last'.path = last.path
        /\ last'.instrument = last.instrument
        /\ last'.supportsStaticESM = last.supportsStaticESM
        /\ \E f \in TransitiveImports(disk, last'.content) :
              last.disk[f].exists /\ last.disk[f].mtime # disk[f].mtime )
      => last'.out # last.out ]_vars

\* C8: getCacheKey never throws because a reachable file is missing on disk:
\* the missing path is left out of the key.
C8_MissingFileNeverThrows ==
  last.op = "getCacheKey" =>
     /\ ~last.threw
     /\ \A i \in 1..Len(last.names) : ExistsSync(last.disk, last.names[i])

\* ------------------------------------------------------- cache key elements
\* The elements getCacheKey hashes, for two requests that differ in one
\* element or in content and path.
\* NUL, '/' and a letter
KeyAlphabet == {0, 47, 97}

StringsOver(alphabet, n) == UNION {[1..m -> alphabet] : m \in 0..n}

\* the texts a file may hold
KeyContents == StringsOver(KeyAlphabet, MaxKeyLen)

\* absolute paths: no path holds NUL
KeyPaths == {<<47>> \o q : q \in StringsOver(KeyAlphabet \ {0}, MaxKeyLen)}

\* the values each input of the key may take
KeyDomain ==
  [ transformCfgStr |-> {TransformCfgStr(ConfigValue(i), CreateConfigSet(ConfigValue(i))) :
                           i \in 1..NumConfigValues},
    rootDir |-> {<<47>>, CreateConfigSet(ConfigValue(1)).rootDir},
    instrument |-> BOOLEAN,
    supportsStaticESM |-> BOOLEAN,
    fileContent |-> KeyContents,
    filePath |-> KeyPaths ]

KeyInputs ==
  [ transformCfgStr : KeyDomain.transformCfgStr,
    rootDir : KeyDomain.rootDir,
    instrument : KeyDomain.instrument,
    supportsStaticESM : KeyDomain.supportsStaticESM,
    fileContent : KeyDomain.fileContent,
    filePath : KeyDomain.filePath ]

ElementsOf(x) ==
  CacheKeyElements(x.transformCfgStr, x.rootDir, x.instrument, x.supportsStaticESM,
                   x.fileContent, x.filePath)

\* the elements of two requests that differ are built and joined as sha1 is
\* fed them
CompareElements(a, b) ==
  /\ a # b
  /\ ke' = [ pc |-> "compared", a |-> a, b |-> b,
             elsA |-> ElementsOf(a), elsB |-> ElementsOf(b),
             joinedA |-> Sha1(ElementsOf(a)), joinedB |-> Sha1(ElementsOf(b)) ]
  /\ UNCHANGED << cachedConfigSets, transformers, compilers, depGraphs, cacheFS, disk,
                  watchArg, last, resolutions, gr >>

InitKeyEls ==
  /\ InitProgram
  /\ disk = InitialDisk
  /\ watchArg = FALSE
  /\ gr = NoClosure
  /\ ke = NoElements

\* the second request differs from the first in one input, or in content and
\* path
NextKeyEls ==
  /\ ke.pc = "off"
  /\ \E a \in KeyInputs :
        \/ \E f \in DOMAIN KeyDomain : \E v \in KeyDomain[f] :
              CompareElements(a, [a EXCEPT ![f] = v])
        \/ \E content \in KeyContents, path \in KeyPaths :
              CompareElements(a, [a EXCEPT !.fileContent = content, !.filePath = path])

SpecKeyEls == InitKeyEls /\ [][NextKeyEls]_vars

ImportLists ==
  UNION {[1..n -> LocalSpecifiers \cup ExternalSpecifiers] : n \in 0..MaxImports}

\* every file holds an import list; d.ts may be missing from the disk
ImportGraphs ==
  { d \in [Files -> {File(TRUE, 1, c) : c \in ImportLists} \cup {File(FALSE, 0, <<>>)}] :
      /\ \A p \in Files \ {PathOf(100)} : d[p].exists
      /\ Len(d[PathOf(97)].content) + Len(d[PathOf(98)].content)
           + Len(d[PathOf(99)].content) + Len(d[PathOf(100)].content) <= MaxEdges }

\* the program after the first request configured transformer 1 on the disk
Configured(dsk) ==
  ConfigsFor([ reg |-> <<>>, trs |-> [t \in 1..NumTransformers |-> NewTransformer(t)],
               comps |-> <<>>, graphs |-> [m \in 1..NumTransformers |-> EmptyMap],
               cfs |-> EmptyMap, watch |-> FALSE ],
             dsk, 1, ConfigObj(1)).W

\* no list of the model is longer than the lists the code can build
MaxListLen == MaxImports * (MaxImports + 1)

\* this._compiler.getResolvedModules(fileContent, filePath, cacheFS) is called
GetResolvedModulesCall ==
  /\ gr.pc = "off"
  /\ gr' = ForEachStart(DirectImports(compilers[transformers[1].compiler], disk,
                                      disk[PathOf(97)].content),
                        cacheFS)
  /\ compilers' = [compilers EXCEPT ![transformers[1].compiler] = gr'.comp]
  /\ UNCHANGED << cachedConfigSets, transformers, depGraphs, cacheFS, disk, watchArg,
                  last, resolutions, ke >>

\* the loop takes its next step
GetResolvedModulesStep ==
  /\ gr.pc = "forEach"
  /\ gr' = ForEachStep(gr, disk)
  /\ Len(gr'.list) <= MaxListLen
  /\ compilers' = [compilers EXCEPT ![transformers[1].compiler] = gr'.comp]
  /\ cacheFS' = gr'.cfs
  /\ UNCHANGED << cachedConfigSets, transformers, depGraphs, disk, watchArg,
                  last, resolutions, ke >>

InitClosure ==
  /\ disk \in ImportGraphs
  /\ cachedConfigSets = Configured(disk).reg
  /\ transformers = Configured(disk).trs
  /\ compilers = Configured(disk).comps
  /\ depGraphs = Configured(disk).graphs
  /\ cacheFS = Configured(disk).cfs
  /\ watchArg = FALSE
  /\ last = NoRequest
  /\ resolutions = EmptyMap
  /\ gr = NoClosure
  /\ ke = NoElements

NextClosure == GetResolvedModulesCall \/ GetResolvedModulesStep

\* the call is synchronous code: a step that can be taken is taken
SpecClosure == InitClosure /\ [][NextClosure]_vars /\ WF_vars(NextClosure)

\* the order a worklist discovers the reachable files in: each entry's
\* imports not yet listed are appended, and every entry is expanded
LocalImportsInOrder(dsk, content) ==
  SelectSeq([i \in 1..Len(PreProcessFile(content)) |-> PathOf(PreProcessFile(content)[i])],
            LAMBDA p : p \in Files /\ dsk[p].exists)

RECURSIVE DiscoveryOrder(_, _, _)
DiscoveryOrder(dsk, list, k) ==
  IF k > Len(list) THEN list
  ELSE DiscoveryOrder(dsk, Dedup(list \o LocalImportsInOrder(dsk, dsk[list[k]].content)),
                      k + 1)

DirectOrder(dsk, content) == Dedup(LocalImportsInOrder(dsk, content))

\* C9: getResolvedModules returns every file reachable from the root through
\* local imports, whatever the length of the chain, in first-discovery order.
C9_FullTransitiveClosure ==
  gr.pc = "done" =>
     /\ Range(gr.list) = TransitiveImports(disk, disk[PathOf(97)].content)
     /\ Dedup(gr.list) = DiscoveryOrder(disk, DirectOrder(disk, disk[PathOf(97)].content), 1)

\* C10: on every import graph, cyclic or not, getResolvedModules finishes
\* after finitely many expansion steps.
C10_ClosureTerminates == <>(gr.pc = "done")

\* the call has returned on a graph where a.ts imports itself through b.ts
C10_ReturnedOnCycle ==
  /\ gr.pc = "done"
  /\ InSeq(98, disk[PathOf(97)].content)
  /\ InSeq(97, disk[PathOf(98)].content)
  /\ InSeq(97, disk[PathOf(97)].content)
  /\ gr.k > 1

\* C11: the list getResolvedModules returns holds each distinct resolved path
\* exactly once, on every import graph.
C11_ReturnedListHasNoDuplicates ==
  gr.pc = "done" =>
     \A i, j \in 1..Len(gr.list) : gr.list[i] = gr.list[j] => i = j

\* --------------------------------------------------------- compile requests
\* One transformer instance answers process, processAsync and getCacheKey
\* requests under one of several configurations, and its compiler is also
\* called directly, for files of several kinds and several texts.

\* what is on disk: the four modules, a script, a declaration file, a
\* package's script and a text file
CompileDisk ==
  [ p \in Files \cup { <<47, 97, 46, 106, 115>>, <<47, 97, 46, 100, 46, 116, 115>>,
                       <<47, 110, 47, 120, 46, 106, 115>>, <<47, 97, 46, 109, 100>> } |->
      IF p \in Files THEN InitialDisk[p] ELSE File(TRUE, 1, <<>>) ]

\* the requests: a project file, a script and a declaration file; a blank, a
\* text with a type error ('!') and one with a type error that the service
\* does not emit ('!~'); the
\* default configuration, one that only warns, one whose tsconfig allows
\* scripts and one that stringifies declaration files
CompileInputs ==
  [ paths |-> {PathOf(98), <<47, 97, 46, 106, 115>>, <<47, 97, 46, 100, 46, 116, 115>>},
    contents |-> {<<32>>, <<33>>, <<33, 126>>},
    configs |->
      { [ref |-> 1, val |-> ConfigValue(1)],
        [ref |-> 2, val |-> [ConfigValue(1) EXCEPT !.warnOnly = TRUE]],
        [ref |-> 3, val |-> [ConfigValue(1) EXCEPT !.tsconfig = AllowJsTsconfig]],
        [ref |-> 4, val |-> [ConfigValue(1) EXCEPT
                               !.stringifyContentPathRegex = DECLARATION_TYPE_EXT]] } ]

\* the compiler of a transformer instance is called directly:
\* compiler.getCompiledOutput(fileContent, fileName, {depGraphs, supportsStaticESM, watchMode})
GetCompiledOutputCalled(t, fileContent, fileName, supportsStaticESM, c) ==
  /\ c.comp.projectVersion <= MaxProjectVersion
  /\ compilers' = [compilers EXCEPT ![transformers[t].compiler] = c.comp]
  /\ cacheFS' = c.cfs
  /\ last' = [NoRequest EXCEPT
                !.op = "getCompiledOutput", !.t = t,
                !.content = fileContent, !.path = fileName,
                !.supportsStaticESM = supportsStaticESM,
                !.threw = c.threw, !.out = IF c.threw THEN <<>> ELSE c.code,
                !.diagnostics = c.diagnostics, !.rechecked = c.rechecked,
                !.at = c.at, !.disk = disk]
  /\ UNCHANGED << cachedConfigSets, transformers, depGraphs, disk, watchArg,
                  resolutions, gr, ke >>

GetCompiledOutputRequest(t, fileContent, fileName, supportsStaticESM) ==
  /\ transformers[t].compiler # 0
  /\ GetCompiledOutputCalled(t, fileContent, fileName, supportsStaticESM,
        GetCompiledOutput(compilers[transformers[t].compiler], cacheFS, disk,
                          depGraphs[transformers[t].depGraphs], fileContent, fileName,
                          supportsStaticESM, transformers[t].watchMode))

InitCompile ==
  /\ InitProgram
  /\ disk = CompileDisk
  /\ watchArg \in BOOLEAN
  /\ gr = NoClosure
  /\ ke = NoElements

NextCompile ==
  \/ \E content \in CompileInputs.contents, path \in CompileInputs.paths, esm \in BOOLEAN :
        \/ GetCompiledOutputRequest(1, content, path, esm)
        \/ \E o \in CompileInputs.configs :
              /\ \A i \in 1..Len(cachedConfigSets) : cachedConfigSets[i].jestConfig.value = o.ref
              /\ \/ ProcessRequest(1, o, content, path, esm)
                 \/ ProcessAsyncRequest(1, o, content, path, esm)
  \/ \E o \in CompileInputs.configs :
        /\ \A i \in 1..Len(cachedConfigSets) : cachedConfigSets[i].jestConfig.value = o.ref
        /\ GetCacheKeyRequest(1, o, disk[PathOf(97)].content, PathOf(97), FALSE, TRUE)

SpecCompile == InitCompile /\ [][NextCompile]_vars

\* C12 as stated: a process or processAsync request for a path ending in the
\* declaration extension returns empty code and no diagnostics, for every
\* content and every configuration.
C12_DeclarationFileEmptyForEveryConfiguration ==
  (last.op \in {"process", "processAsync"} /\ EndsWith(last.path, DECLARATION_TYPE_EXT)) =>
     /\ ~last.threw
     /\ last.out = <<>>
     /\ last.diagnostics = <<>>

\* C12: a process or processAsync request for a path ending in the
\* declaration extension, under a configuration that does not ask for the
\* path to be stringified, returns empty code and no diagnostics for every
\* content, and leaves every compiler and the runtime cache as they were.
C12_DeclarationFileEmptyUnlessStringified ==
  [][ ( /\ last'.op \in {"process", "processAsync"}
        /\ EndsWith(last'.path, DECLARATION_TYPE_EXT)
        /\ ~ShouldStringifyContent(cachedConfigSets'[last'.idx].configSet, last'.path) )
      => ( /\ ~last'.threw
           /\ last'.out = <<>>
           /\ last'.diagnostics = <<>>
           /\ last'.at = "isDefinitionFile"
           /\ cacheFS' = cacheFS
           /\ \A c \in 1..Len(compilers) : compilers'[c] = compilers[c] ) ]_vars

\* a declaration file holding a text with a type error was processed by a
\* transformer that has a compiler, and the answer is the empty code
C12_DeclarationFileProcessed ==
  /\ last.op = "process"
  /\ EndsWith(last.path, DECLARATION_TYPE_EXT)
  /\ last.content = <<33>>
  /\ last.how = "ref"
  /\ Len(compilers) = 1
  /\ ~last.threw
  /\ last.out = <<>>

\* C13: in full-service mode, the second of two getCompiledOutput calls in a
\* row with the same content, path and options leaves the file's overlay
\* version and the project version as the first call left them, and answers
\* as the first call did.
C13_SecondCompileChangesNothing ==
  [][ ( /\ last.op = "getCompiledOutput"
        /\ last'.op = "getCompiledOutput"
        /\ last'.t = last.t
        /\ last'.content = last.content
        /\ last'.path = last.path
        /\ last'.supportsStaticESM = last.supportsStaticESM
        /\ compilers[transformers[last.t].compiler].languageService )
      => ( /\ compilers'[transformers[last.t].compiler].fileVersionCache
                 = compilers[transformers[last.t].compiler].fileVersionCache
           /\ compilers'[transformers[last.t].compiler].projectVersion
                 = compilers[transformers[last.t].compiler].projectVersion
           /\ last'.threw = last.threw
           /\ last'.out = last.out ) ]_vars

\* what process (p) and processAsync (q) answer to one request in one state:
\* the same program state; both throw when processWithTs throws; when it
\* returns a non-empty diagnostics list processAsync throws and process
\* returns the code; else both return the same code
SameButDiagnosticsThrown(p, q) ==
  /\ q.W = p.W
  /\ q.how = p.how /\ q.idx = p.idx
  /\ q.diagnostics = p.diagnostics /\ q.rechecked = p.rechecked
  /\ IF p.threw THEN q.threw
     ELSE IF p.diagnostics # <<>> THEN q.threw
     ELSE ~q.threw /\ q.out = p.out

LastCompiler == compilers[transformers[last.t].compiler]

\* the last request was a getCompiledOutput call that reached the emit of the
\* language service
LastCallEmitted ==
  /\ last.op = "getCompiledOutput"
  /\ LastCompiler.languageService
  /\ ~(IsJsJsx(last.path) /\ ~LastCompiler.compilerOptions.allowJs)

\* the reporting policy aborted the last call for the file's diagnostics
LastCallAborted ==
  /\ ~(LastCompiler.configSet.useESM /\ last.supportsStaticESM)
  /\ RaiseThrows(LastCompiler, GetDiagnostics(LastCompiler, last.path))

C16_NoOutputFilesThrows ==
  ( /\ LastCallEmitted
    /\ ~EmitOutput(LastCompiler, last.path).emitSkipped
    /\ EmitOutput(LastCompiler, last.path).outputFiles = <<>> )
  => (last.threw /\ last.out = <<>>)

\* a declaration file was handed to getCompiledOutput, the reporting policy
\* let it pass and the call threw for the empty list of output files
C16_DefinitionFileRequired ==
  /\ LastCallEmitted
  /\ EndsWith(last.path, DECLARATION_TYPE_EXT)
  /\ ~LastCallAborted
  /\ last.at = "UnableToRequireDefinitionFile"
  /\ last.threw

\* C18: getCompiledOutput for a js/jsx path while the effective compiler
\* options do not allow scripts returns the original content, does not throw,
\* and leaves the overlay contents, every file version and the project
\* version unchanged.
C18_UnacceptedScriptLeavesOverlay ==
  [][ ( /\ last'.op = "getCompiledOutput"
        /\ compilers[transformers[last'.t].compiler].languageService
        /\ IsJsJsx(last'.path)
        /\ ~compilers'[transformers[last'.t].compiler].compilerOptions.allowJs )
      => ( /\ ~last'.threw
           /\ last'.out = last'.content
           /\ compilers'[transformers[last'.t].compiler].fileContentCache
                 = compilers[transformers[last'.t].compiler].fileContentCache
           /\ compilers'[transformers[last'.t].compiler].fileVersionCache
                 = compilers[transformers[last'.t].compiler].fileVersionCache
           /\ compilers'[transformers[last'.t].compiler].projectVersion
                 = compilers[transformers[last'.t].compiler].projectVersion ) ]_vars

\* a script with a type error was handed to a compiler whose options do not
\* allow scripts, after the compiler had compiled a project file
C18_ScriptNotAccepted ==
  /\ last.op = "getCompiledOutput"
  /\ last.at = "GotJsFileButAllowJsFalse"
  /\ last.content = <<33>>
  /\ last.out = <<33>>
  /\ LastCompiler.projectVersion > 1

\* the version the overlay of a compiler holds for a file, 0 when it has none
OverlayVersion(comp, fileName) ==
  IF fileName \in DOMAIN comp.fileVersionCache THEN comp.fileVersionCache[fileName]
  ELSE 0

\* C17: in watch mode and full-service mode, every compile of a changed file F
\* that the reporting policy did not abort diagnoses again, within the same
\* request, every file G whose recorded reachable set in the dependency-graph
\* cache holds F, whether or not F itself has diagnostics.
C17_DependentsReDiagnosed ==
  [][ ( /\ last'.op \in {"getCompiledOutput", "process", "processAsync"}
        /\ transformers[last'.t].compiler # 0
        /\ transformers'[last'.t] = transformers[last'.t]
        /\ transformers[last'.t].watchMode
        /\ compilers[transformers[last'.t].compiler].languageService
        /\ OverlayVersion(compilers'[transformers[last'.t].compiler], last'.path)
              # OverlayVersion(compilers[transformers[last'.t].compiler], last'.path)
        /\ ~last'.threw )
      => \A G \in DOMAIN depGraphs[transformers[last'.t].depGraphs] :
            InSeq(last'.path, depGraphs[transformers[last'.t].depGraphs][G].resolvedModuleNames)
               => G \in last'.rechecked ]_vars

\* C19: every record appended on a registry miss holds a dependency-graph
\* cache that is empty when the record is appended and that no other record
\* holds.
C19_FreshDependencyGraphPerRecord ==
  [][ /\ \A i, j \in 1..Len(cachedConfigSets') :
            i # j => cachedConfigSets'[i].depGraphs # cachedConfigSets'[j].depGraphs
      /\ Len(cachedConfigSets') > Len(cachedConfigSets)
            => depGraphs[cachedConfigSets'[Len(cachedConfigSets')].depGraphs] = EmptyMap ]_vars

\* C20: the registry only grows: a request appends one record exactly when
\* its lookup finds no record by reference or by serialized form, no record is
\* removed or moved, and a record's configuration set, fingerprint, compiler,
\* dependency-graph cache and watch-mode flag never change.
C20_RegistryAppendOnly ==
  [][ /\ Len(cachedConfigSets') \in {Len(cachedConfigSets), Len(cachedConfigSets) + 1}
      /\ (Len(cachedConfigSets') = Len(cachedConfigSets) + 1)
            <=> (~last'.valueKnownBefore /\ ~last'.serializedKnownBefore)
      /\ \A i \in 1..Len(cachedConfigSets) :
            /\ i <= Len(cachedConfigSets')
            /\ cachedConfigSets'[i].configSet = cachedConfigSets[i].configSet
            /\ cachedConfigSets'[i].transformerCfgStr = cachedConfigSets[i].transformerCfgStr
            /\ cachedConfigSets'[i].compiler = cachedConfigSets[i].compiler
            /\ cachedConfigSets'[i].depGraphs = cachedConfigSets[i].depGraphs
            /\ cachedConfigSets'[i].watchMode = cachedConfigSets[i].watchMode ]_vars

\* a registry of several records, one of which has just been back-patched
\* with the live configuration of the request
C20_RecordBackPatched ==
  /\ Len(cachedConfigSets) >= 2
  /\ last.how = "ser"
  /\ ~last.valueKnownBefore
  /\ cachedConfigSets[last.idx].jestConfig.value = last.ref

\* ----------------------------------------------------- dependency-graph cache
\* the dependency-graph Map the instance of the last request works on, before
\* and after the request
GraphBefore == depGraphs[transformers'[last'.t].depGraphs]

GraphAfter == depGraphs'[transformers'[last'.t].depGraphs]

\* what a getCacheKey request does with the entry of its file: with an entry
\* of the same content nothing is resolved, the key takes the stored names
\* that exist on disk and the entry stays; else the names are resolved and
\* stored with the content
FastPathOrResolved ==
  IF StoredEntryMatches(GraphBefore, last'.path, last'.content)
  THEN /\ last'.fast /\ ~last'.resolved
       /\ last'.names = SelectSeq(GraphBefore[last'.path].resolvedModuleNames,
                                  LAMBDA m : m \in DOMAIN disk /\ disk[m].exists)
       /\ GraphAfter = GraphBefore
       /\ compilers'[transformers'[last'.t].compiler].moduleResolutionCache
             = compilers[transformers'[last'.t].compiler].moduleResolutionCache
  ELSE /\ ~last'.fast /\ last'.resolved
       /\ last'.path \in DOMAIN GraphAfter
       /\ GraphAfter[last'.path] =
             [fileContent |-> last'.content, resolvedModuleNames |-> last'.names]
       /\ \A f \in DOMAIN GraphBefore \ {last'.path} :
             f \in DOMAIN GraphAfter /\ GraphAfter[f] = GraphBefore[f]

\* C21 as stated: every getCacheKey request either takes the fast path on an
\* entry of the same content or resolves and replaces the entry.
C21_FastPathOrResolve ==
  [][ (last'.op = "getCacheKey" /\ disk' = disk /\ last' # last) => FastPathOrResolved ]_vars

\* C21: a getCacheKey request under a configuration that is not
\* isolated-modules and has a cache directory takes the fast path on an entry
\* of the same content (nothing resolved, the stored names that exist on
\* disk in stored order, the entry unchanged), else resolves and replaces
\* the entry by the request's content and the resolved names.
C21_FastPathOrResolveWhenTracking ==
  [][ ( /\ last'.op = "getCacheKey" /\ disk' = disk /\ last' # last
        /\ ~cachedConfigSets'[last'.idx].configSet.isolatedModules
        /\ cachedConfigSets'[last'.idx].configSet.tsCacheDir # Undefined )
      => FastPathOrResolved ]_vars

\* the fast path answered with fewer names than the entry stores, a stored
\* file having been deleted since
C21_FastPathDroppedDeletedFile ==
  /\ last.op = "getCacheKey"
  /\ last.fast
  /\ last.path \in DOMAIN depGraphs[transformers[last.t].depGraphs]
  /\ Len(last.names)
        < Len(depGraphs[transformers[last.t].depGraphs][last.path].resolvedModuleNames)

\* ------------------------------------------- resolution gaps of the closure
\* C22: every path in the list getResolvedModules builds is an import of the
\* root or of a listed file that resolved to a file on disk outside the
\* packages; an unresolved specifier or a package import is dropped and its
\* file is never read for expansion.
C22_OnlyResolvedLocalImports ==
  gr.pc \in {"forEach", "done"} =>
     /\ \A i \in 1..Len(gr.list) :
           /\ gr.list[i] \in Files
           /\ disk[gr.list[i]].exists
           /\ ~IsNodeModule(gr.list[i])
           /\ \/ InSeq(gr.list[i][2], disk[PathOf(97)].content)
              \/ \E j \in 1..Len(gr.list) : InSeq(gr.list[i][2], disk[gr.list[j]].content)
     /\ DOMAIN cacheFS \subseteq Range(gr.list)

\* the call returned a non-empty list for a root that imports b.ts, the
\* missing d.ts and, through b.ts, a package
C22_GapsAndPackageDropped ==
  /\ gr.pc = "done"
  /\ ~disk[PathOf(100)].exists
  /\ InSeq(100, disk[PathOf(97)].content)
  /\ InSeq(98, disk[PathOf(97)].content)
  /\ InSeq(120, disk[PathOf(98)].content)
  /\ gr.list = <<PathOf(98)>>

\* ------------------------------------------------------------------ overlay
\* the last request went through the emit of the language service
LastRequestEmitted ==
  /\ last.op \in {"getCompiledOutput", "process", "processAsync"}
  /\ last.at \in {"raiseDiagnostics", "CannotProcessFile", "CannotProcessFileReturnOriginal",
                  "UnableToRequireDefinitionFile", "emitted"}
  /\ LastCompiler.languageService

\* C23: in full-service mode the overlay entry the service reads for the
\* path of a compile request holds exactly the request's content, also on
\* the first compile of the path and whatever the runtime cache or the disk
\* holds for it.
C23_OverlayHoldsContentAtEmit ==
  LastRequestEmitted => OverlayText(LastCompiler, last.path) = last.content

\* an overlay update of a tracked file: the version goes up by one and the
\* content is stored when the content differs, both stay when it is equal;
\* no other path changes
OverlayUpdated(comp, updated, contents, fileName) ==
  /\ IsFileInCache(comp, fileName) =>
        IF comp.fileContentCache[fileName] # contents
        THEN /\ updated.fileVersionCache[fileName] = comp.fileVersionCache[fileName] + 1
             /\ updated.fileContentCache[fileName] = contents
        ELSE /\ updated.fileVersionCache[fileName] = comp.fileVersionCache[fileName]
             /\ updated.fileContentCache[fileName] = comp.fileContentCache[fileName]
  /\ DOMAIN updated.fileVersionCache \ {fileName} = DOMAIN comp.fileVersionCache \ {fileName}
  /\ DOMAIN updated.fileContentCache \ {fileName} = DOMAIN comp.fileContentCache \ {fileName}
  /\ \A g \in DOMAIN comp.fileVersionCache \ {fileName} :
        updated.fileVersionCache[g] = comp.fileVersionCache[g]
  /\ \A g \in DOMAIN comp.fileContentCache \ {fileName} :
        updated.fileContentCache[g] = comp.fileContentCache[g]

\* C24: for a path in the overlay (content present, version not 0) an overlay
\* update increments the path's version by exactly 1 and stores the content
\* when the content differs from the stored one, and leaves both unchanged
\* when it is equal; no overlay update changes another path.
C24_VersionChangesOnlyOnContentChange ==
  \A c \in 1..Len(compilers) :
     compilers[c].languageService =>
        \A contents \in CompileInputs.contents \cup {<<>>},
           fileName \in CompileInputs.paths \cup DOMAIN compilers[c].fileVersionCache,
           isModuleKindTheSame \in BOOLEAN :
           OverlayUpdated(compilers[c],
                          UpdateMemoryCache(compilers[c], contents, fileName, isModuleKindTheSame),
                          contents, fileName)

\* a compile request has updated the overlay entry of the tracked project
\* file b.ts with another content: the entry holds it at version 2
C24_TrackedFileUpdated ==
  /\ last.op \in {"getCompiledOutput", "process", "processAsync"}
  /\ LastCompiler.languageService
  /\ last.path = PathOf(98)
  /\ last.content = <<33>>
  /\ IsFileInCache(LastCompiler, PathOf(98))
  /\ LastCompiler.fileVersionCache[PathOf(98)] = 2
  /\ LastCompiler.fileContentCache[PathOf(98)] = <<33>>
  /\ LastCompiler.fileVersionCache[PathOf(97)] = 1

\* from one state of a compiler to a later one no tracked path is lost, no
\* version decreases and the project version does not decrease
NotBefore(comp, later) ==
  /\ \A f \in DOMAIN comp.fileVersionCache :
        /\ f \in DOMAIN later.fileVersionCache
        /\ later.fileVersionCache[f] >= comp.fileVersionCache[f]
  /\ later.projectVersion >= comp.projectVersion

\* every overlay update and every snapshot read a compiler may be asked for
\* next leaves it not before where it is
NextUpdatesNotBefore ==
  \A c \in 1..Len(compilers) :
     /\ compilers[c].projectVersion >= 1
     /\ \A fileName \in CompileInputs.paths \cup DOMAIN compilers[c].fileVersionCache :
           /\ NotBefore(compilers[c], GetScriptSnapshot(compilers[c], cacheFS, disk, fileName))
           /\ \A contents \in CompileInputs.contents :
                 NotBefore(compilers[c],
                           UpdateMemoryCache(compilers[c], contents, fileName, TRUE))

\* C25: no request (with the overlay updates, the snapshot reads and the
\* watch-mode updates it makes) and no single overlay update or snapshot read
\* decreases a path's version, drops a tracked path or decreases the project
\* version, and a compiler starts at project version 1.
C25_VersionsMonotonic ==
  /\ []NextUpdatesNotBefore
  /\ [][ /\ \A c \in 1..Len(compilers) :
               /\ c <= Len(compilers')
               /\ NotBefore(compilers[c], compilers'[c])
         /\ \A c \in 1..Len(compilers') :
               (c > Len(compilers) /\ last'.op = "getCacheKey")
                  => compilers'[c].projectVersion = 1 ]_vars

\* in watch mode a request compiled a changed file, now at version 2 or
\* more, and diagnosed a dependent again
C25_ChangedFileAndDependentUpdated ==
  /\ last.op \in {"getCompiledOutput", "process", "processAsync"}
  /\ last.rechecked # {}
  /\ LastCompiler.fileVersionCache[last.path] >= 2
  /\ LastCompiler.projectVersion >= 2

\* C26: the host's version lookup answers undefined exactly for the paths
\* that are not in the version store and the stored number as a string for
\* every tracked path, so that an untracked path never has the answer of a
\* project file tracked at version 0.
C26_ScriptVersionSentinel ==
  \A c \in 1..Len(compilers) :
     compilers[c].languageService =>
        \A f \in Files :
           /\ (GetScriptVersion(compilers[c], f) = Undefined)
                 <=> (f \notin DOMAIN compilers[c].fileVersionCache)
           /\ f \in DOMAIN compilers[c].fileVersionCache
                 => GetScriptVersion(compilers[c], f)
                       = NumToString(compilers[c].fileVersionCache[f])
           /\ \A g \in DOMAIN compilers[c].fileVersionCache :
                 f \notin DOMAIN compilers[c].fileVersionCache
                    => GetScriptVersion(compilers[c], f) # GetScriptVersion(compilers[c], g)

\* a compiler created after b.ts was deleted tracks b.ts at version 0, a.ts
\* at version 1, and does not track c.ts
C26_UntrackedAndTrackedAtZero ==
  /\ Len(compilers) >= 1
  /\ compilers[1].languageService
  /\ PathOf(99) \notin DOMAIN compilers[1].fileVersionCache
  /\ PathOf(98) \in DOMAIN compilers[1].fileVersionCache
  /\ compilers[1].fileVersionCache[PathOf(98)] = 0
  /\ compilers[1].fileVersionCache[PathOf(97)] = 1

\* the compiler the request of this step went to, before and after it
CompilerBefore == compilers[transformers[last'.t].compiler]

CompilerAfter == compilers'[transformers[last'.t].compiler]

\* this step is a compile request that went through the language service of
\* a compiler that existed before
ServiceRequestStep ==
  /\ last'.op \in {"getCompiledOutput", "process", "processAsync"}
  /\ last'.at \in {"raiseDiagnostics", "CannotProcessFile", "CannotProcessFileReturnOriginal",
                   "UnableToRequireDefinitionFile", "emitted"}
  /\ transformers[last'.t].compiler # 0
  /\ transformers'[last'.t].compiler = transformers[last'.t].compiler
  /\ CompilerBefore.languageService

\* C27: in full-service mode a compile of a tracked path with unchanged
\* content increments the project version whenever the module kind in effect
\* for the request differs from the module kind recorded in the session's
\* initial compiler options, and the file's own version stays unchanged.
C27_ModuleKindChangeForcesReanalysis ==
  [][ ( /\ ServiceRequestStep
        /\ IsFileInCache(CompilerBefore, last'.path)
        /\ CompilerBefore.fileContentCache[last'.path] = last'.content
        /\ CompilerAfter.compilerOptions.module # CompilerAfter.initialCompilerOptions.module )
      => ( /\ CompilerAfter.projectVersion > CompilerBefore.projectVersion
           /\ CompilerAfter.fileVersionCache[last'.path]
                 = CompilerBefore.fileVersionCache[last'.path] ) ]_vars

\* the project file b.ts, the only file compiled, was compiled with another
\* content and then with the same content for CommonJS: its version is 2
\* and the project version 3
C27_UnchangedFileCompiledForCommonJS ==
  /\ last.op \in {"getCompiledOutput", "process", "processAsync"}
  /\ LastCompiler.languageService
  /\ last.path = PathOf(98)
  /\ ~last.supportsStaticESM
  /\ LastCompiler.compilerOptions.module = "CommonJS"
  /\ DOMAIN LastCompiler.fileVersionCache = ProjectFileNames
  /\ LastCompiler.fileContentCache[PathOf(98)] = last.content
  /\ LastCompiler.fileVersionCache[PathOf(98)] = 2
  /\ LastCompiler.projectVersion = 3

\* C28: in full-service mode non-empty diagnostics of the requested file
\* always reach the reporting policy before the request completes, from
\* process and processAsync, for native-module requests and others: under a
\* policy that throws for them the request throws.
C28_DiagnosticsReachPolicy ==
  ( /\ LastRequestEmitted
    /\ GetDiagnostics(LastCompiler, last.path) # <<>>
    /\ RaiseThrows(LastCompiler, GetDiagnostics(LastCompiler, last.path)) )
  => last.threw

\* ----------------------------------------------------------- operating mode
\* C29: a compiler has a language service and overlay entries if and only if
\* its configuration was not isolated-modules when it was constructed, and
\* this never changes; a compiler in isolated mode never gets an overlay
\* entry or a file version and its project version stays what it was.
C29_OperatingModeFixed ==
  [][ /\ \A c \in 1..Len(compilers') :
            /\ compilers'[c].languageService <=> ~compilers'[c].configSet.isolatedModules
            /\ compilers'[c].languageService
                  <=> (DOMAIN compilers'[c].fileVersionCache # {})
            /\ ~compilers'[c].languageService =>
                  /\ compilers'[c].fileContentCache = EmptyMap
                  /\ compilers'[c].fileVersionCache = EmptyMap
                  /\ compilers'[c].projectVersion = 1
      /\ \A c \in 1..Len(compilers) :
            /\ c <= Len(compilers')
            /\ compilers'[c].languageService = compilers[c].languageService
            /\ compilers'[c].configSet = compilers[c].configSet ]_vars

\* a compiler in isolated mode has just transpiled a file for a process
\* request while a compiler in full-service mode exists
C29_TranspiledInIsolatedMode ==
  /\ last.op \in {"process", "processAsync"}
  /\ last.at = "transpiled"
  /\ ~LastCompiler.languageService
  /\ LastCompiler.configSet.isolatedModules
  /\ \E c \in 1..Len(compilers) : compilers[c].languageService

\* -------------------------------------------------------------- active state
\* C30: after a transformer instance resolved a configuration, by reference,
\* by serialized form or by a miss, its active compiler, fingerprint,
\* dependency-graph cache and watch-mode flag are those of the registry
\* record of that configuration, and none of the compiler and the
\* dependency-graph cache is the one of a record of another configuration.
C30_ActiveStateIsTheRecords ==
  last.op \in {"getCacheKey", "process", "processAsync"} =>
     /\ transformers[last.t].compiler = cachedConfigSets[last.idx].compiler
     /\ transformers[last.t].transformCfgStr = cachedConfigSets[last.idx].transformerCfgStr
     /\ transformers[last.t].depGraphs = cachedConfigSets[last.idx].depGraphs
     /\ transformers[last.t].watchMode = cachedConfigSets[last.idx].watchMode
     /\ \A j \in 1..Len(cachedConfigSets) :
           j # last.idx =>
              /\ cachedConfigSets[j].compiler # transformers[last.t].compiler
              /\ cachedConfigSets[j].depGraphs # transformers[last.t].depGraphs

\* ------------------------------------------- dependency resolution and mode
\* the configuration that answered the last request, whether getCacheKey
\* tracks dependencies under it, and the key over the base elements alone
LastConfigSet == cachedConfigSets[last.idx].configSet

TracksDependencies(configSet) ==
  ~configSet.isolatedModules /\ configSet.tsCacheDir # Undefined

BaseKey(req, inst, configSet) ==
  Sha1(CacheKeyElements(inst.transformCfgStr, configSet.rootDir, req.instrument,
                        req.supportsStaticESM, req.content, req.path))

\* C31: getCacheKey calls getResolvedModules only under a configuration that
\* is not isolated-modules and has a cache directory, and then on a compiler
\* that has its language service (and so its module resolution host); under
\* any other configuration it neither resolves nor takes the stored set, the
\* key is the digest of the base elements alone, with no path or modification
\* time after them, and every dependency-graph Map is left as it was.
C31_ResolutionOnlyWhenTracking ==
  [][ last'.op = "getCacheKey" =>
        /\ last'.resolved =>
              /\ TracksDependencies(LastConfigSet')
              /\ compilers'[transformers'[last'.t].compiler].languageService
              /\ ~compilers'[transformers'[last'.t].compiler].configSet.isolatedModules
        /\ ~TracksDependencies(LastConfigSet') =>
              /\ ~last'.resolved
              /\ ~last'.fast
              /\ ~last'.threw
              /\ last'.names = <<>>
              /\ last'.out = BaseKey(last', transformers'[last'.t], LastConfigSet')
              /\ depGraphs' = depGraphs ]_vars

\* a getCacheKey under a configuration without a cache directory, by an
\* instance whose Map holds an entry for the very file and content, stored by
\* an earlier request that did resolve: the entry is not used
C31_StoredEntryNotUsed ==
  /\ last.op = "getCacheKey"
  /\ ~LastConfigSet.isolatedModules
  /\ LastConfigSet.tsCacheDir = Undefined
  /\ StoredEntryMatches(depGraphs[transformers[last.t].depGraphs], last.path, last.content)
  /\ depGraphs[transformers[last.t].depGraphs][last.path].resolvedModuleNames # <<>>
  /\ ~last.fast /\ ~last.resolved /\ last.names = <<>>

\* ------------------------------------------- file version, project version
\* an overlay update that set or changed the version of a path
VersionSet(comp, updated, fileName) ==
  \/ ~IsFileInCache(comp, fileName)
  \/ fileName \notin DOMAIN comp.fileVersionCache
  \/ updated.fileVersionCache[fileName] # comp.fileVersionCache[fileName]

\* the project version after an overlay update: one more when the update set
\* or changed the version of the path, never more than one more, never less
ProjectVersionFollows(comp, updated, fileName) ==
  /\ VersionSet(comp, updated, fileName) =>
        updated.projectVersion = comp.projectVersion + 1
  /\ updated.projectVersion \in {comp.projectVersion, comp.projectVersion + 1}

\* C32: an overlay update (_updateMemoryCache) that sets the version of a
\* path, on a miss, or increments it, on a changed content, increments the
\* project version in the same update, and no overlay update increments the
\* project version by more than 1: for every update that can follow a
\* reachable state of a compiler, and for every compile request that made
\* one overlay update (the watch loop re-diagnosed nothing).
C32_FileVersionImpliesProjectVersion ==
  /\ [](\A c \in 1..Len(compilers) :
          compilers[c].languageService =>
             \A contents \in CompileInputs.contents \cup {<<>>},
                fileName \in CompileInputs.paths \cup DOMAIN compilers[c].fileVersionCache,
                isModuleKindTheSame \in BOOLEAN :
                ProjectVersionFollows(
                   compilers[c],
                   UpdateMemoryCache(compilers[c], contents, fileName, isModuleKindTheSame),
                   fileName))
  /\ [][ (ServiceRequestStep /\ last'.rechecked = {}) =>
           /\ CompilerAfter.projectVersion
                 \in {CompilerBefore.projectVersion, CompilerBefore.projectVersion + 1}
           /\ ( \/ last'.path \notin DOMAIN CompilerBefore.fileVersionCache
                \/ CompilerAfter.fileVersionCache[last'.path]
                      # CompilerBefore.fileVersionCache[last'.path] )
              => CompilerAfter.projectVersion = CompilerBefore.projectVersion + 1 ]_vars

\* the project file b.ts was compiled as a native module with a blank, another
\* content than the one stored: its version went to 2 and the project
\* version, 1 at creation, to 2, and nothing else was updated
C32_ContentChangeCountedOnce ==
  /\ last.op \in {"getCompiledOutput", "process", "processAsync"}
  /\ LastCompiler.languageService
  /\ last.path = PathOf(98)
  /\ last.content = <<32>>
  /\ last.supportsStaticESM
  /\ last.rechecked = {}
  /\ LastCompiler.fileContentCache[PathOf(98)] = <<32>>
  /\ LastCompiler.fileVersionCache[PathOf(98)] = 2
  /\ LastCompiler.projectVersion = 2

\* --------------------------------------------- the effective compiler options
\* A session for a configuration whose tsconfig sets any module kind, or none,
\* with ESM enabled or not, in either operating mode, after the transformer
\* resolved the configuration for the first time; then compile requests for
\* a project file and a script, native-module capable or not, through the
\* transformer and directly.
\* the jest config object of the session
OptionsConfigObj(isolatedModules) ==
  [ref |-> 1, val |-> [ConfigValue(1) EXCEPT !.isolatedModules = isolatedModules]]


\* the program state W is the state
StateIs(W) ==
  /\ cachedConfigSets = W.reg
  /\ transformers = W.trs
  /\ compilers = W.comps
  /\ depGraphs = W.graphs
  /\ cacheFS = W.cfs
  /\ watchArg = W.watch

InitOptions ==
  /\ disk = CompileDisk
  /\ last = NoRequest
  /\ resolutions = EmptyMap
  /\ gr = NoClosure
  /\ ke = NoElements
  /\ \E module \in {ModuleUnset, "CommonJS", "ES2015", "ESNext", "Node16", "NodeNext"},
        useESM \in BOOLEAN, isolatedModules \in BOOLEAN :
        StateIs(Miss([ reg |-> <<>>,
                       trs |-> [t \in 1..NumTransformers |-> NewTransformer(t)],
                       comps |-> <<>>,
                       graphs |-> [m \in 1..NumTransformers |-> EmptyMap],
                       cfs |-> EmptyMap,
                       watch |-> FALSE ],
                     CompileDisk, 1, OptionsConfigObj(isolatedModules),
                     OptionsConfigObj(isolatedModules).val,
                     [CreateConfigSet(OptionsConfigObj(isolatedModules).val)
                        EXCEPT !.useESM = useESM, !.module = module]).W)

NextOptions ==
  \E content \in CompileInputs.contents, path \in {PathOf(98), <<47, 97, 46, 106, 115>>},
     esm \in BOOLEAN :
     \/ GetCompiledOutputRequest(1, content, path, esm)
     \/ ProcessRequest(1, OptionsConfigObj(cachedConfigSets[1].configSet.isolatedModules),
                       content, path, esm)
     \/ ProcessAsyncRequest(1, OptionsConfigObj(cachedConfigSets[1].configSet.isolatedModules),
                            content, path, esm)

SpecOptions == InitOptions /\ [][NextOptions]_vars

\* the module kind the rule gives for the initial options and a flag
EffectiveModule(initialOptions, native) ==
  IF ~native THEN "CommonJS"
  ELSE IF initialOptions.module = ModuleUnset \/ initialOptions.module \in {"Node16", "NodeNext"}
  THEN "ESNext"
  ELSE initialOptions.module

\* this step is a request that called getCompiledOutput of its compiler
CompilerCalledStep ==
  /\ last'.op \in {"getCompiledOutput", "process", "processAsync"}
  /\ last'.at \notin {"stringified", "isDefinitionFile", "transpileModule",
                      "GotUnknownFileType", "none"}

\* the compiler the request of this step went to, as the step leaves it
CalledCompiler == compilers'[transformers'[last'.t].compiler]

\* the options in effect after the step are those the rule gives for the
\* session's initial options and the flag: the module kind, the interop flag
\* set for a native request under a modern Node kind, the rest as configured
OptionsAre(native) ==
  /\ CalledCompiler.compilerOptions.module
        = EffectiveModule(CalledCompiler.initialCompilerOptions, native)
  /\ CalledCompiler.compilerOptions.esModuleInterop
        = ( \/ CalledCompiler.initialCompilerOptions.esModuleInterop
            \/ native /\ CalledCompiler.initialCompilerOptions.module \in {"Node16", "NodeNext"} )
  /\ CalledCompiler.compilerOptions.allowJs = CalledCompiler.initialCompilerOptions.allowJs
  /\ CalledCompiler.compilerOptions.sourceMap = CalledCompiler.initialCompilerOptions.sourceMap

\* no step modifies the initial options of a compiler
InitialOptionsKept ==
  \A c \in 1..Len(compilers) :
     compilers'[c].initialCompilerOptions = compilers[c].initialCompilerOptions

====
